---- MODULE Spec2Model ----
(***************************************************************************)
(* Safety-traceability knowledge graph: the import engine and the          *)
(* coverage / impact analysis engine over a property-graph store.          *)
(*                                                                         *)
(* The graph store is modelled by the meaning of the Cypher texts in       *)
(* app/db/queries.py: MATCH binds existing nodes, CREATE adds a node or a  *)
(* relationship, OPTIONAL MATCH binds a whole pattern or nothing, a        *)
(* statement that names a parameter the caller did not supply is rejected. *)
(* Every store call may also throw (connection loss, timeout, a statement  *)
(* the engine rejects); which calls throw is an input of each operation.   *)
(***************************************************************************)
EXTENDS Bags, FiniteSets, Integers, Sequences, TLC

VARIABLES
    nodes,   \* the nodes of the graph: records [label, id, asil]
    edges,   \* the relationships of the graph: a bag of [src, type, dst]
    req,     \* the last operation and its input
    resp,    \* what the last operation answered
    calls,   \* the store calls the last operation made, in order
    inflight,\* per concurrent caller: the call it is running
    adapter  \* the store adapter: its handles, pools and open sessions

vars == <<nodes, edges, req, resp, calls, inflight, adapter>>

(***************************************************************************)
(* Bounds of the model.                                                    *)
(***************************************************************************)
MaxCopies == 2      \* parallel relationships between one pair of nodes
MaxEdges == 5       \* relationships in the analysis graphs
MaxFaults == 1      \* store calls that throw within one operation
MaxHazards == 2     \* hazards in one HARA request
MaxPairs == 2       \* relationship pairs in one request
MaxPools == 2       \* connection pools the process creates in its life
MaxStamps == 2      \* resolution timestamps one defect is given

(***************************************************************************)
(* Identifiers are sequences of tokens: "H-001" is <<"H", "-", "001">>.    *)
(***************************************************************************)
H001 == <<"H", "-", "001">>
H002 == <<"H", "-", "002">>
H003 == <<"H", "-", "003">>
H009 == <<"H", "-", "009">>
SG001 == <<"SG", "-", "001">>
SG002 == <<"SG", "-", "002">>
SG009 == <<"SG", "-", "009">>
SC001 == <<"SC", "-", "001">>
FSR001 == <<"FSR", "-", "001">>
TSR001 == <<"TSR", "-", "001">>
TC001 == <<"TC", "-", "001">>
TC002 == <<"TC", "-", "002">>
C001 == <<"C", "-", "001">>
C002 == <<"C", "-", "002">>
C003 == <<"C", "-", "003">>
F001 == <<"F", "-", "001">>
F002 == <<"F", "-", "002">>
FM001 == <<"FM", "-", "001">>
FMEA001 == <<"FMEA", "-", "001">>
D001 == <<"D", "-", "001">>
D002 == <<"D", "-", "002">>
INVALID_ID == <<"INVALID_ID">>

Null == "null"

WordTokens ==
    {"001", "002", "009", "H", "SG", "SC", "FSR", "TSR", "TC", "C", "F",
     "FM", "FMEA", "INVALID_ID"}

\* Field(pattern=r"^PREFIX-[\w-]+$"): the prefix, a dash, then one or more
\* word characters or dashes.
MatchesIdPattern(id, prefixes) ==
    /\ Len(id) >= 3
    /\ id[1] \in prefixes
    /\ id[2] = "-"
    /\ \A i \in 3..Len(id) : id[i] \in WordTokens \cup {"-"}

ASILLevel == {"QM", "A", "B", "C", "D"}

(***************************************************************************)
(* The graph.                                                              *)
(***************************************************************************)
Node(label, id, asil) == [label |-> label, id |-> id, asil |-> asil]
Edge(s, t, d) == [src |-> s, type |-> t, dst |-> d]

NodesWith(ns, label) == {n \in ns : n.label = label}
IdsWith(ns, label) == {n.id : n \in NodesWith(ns, label)}
Copies(es, s, t, d) == CopiesIn(Edge(s, t, d), es)

\* Uniqueness constraint on each node kind's id.
ViolatesUniqueId(ns, n) == \E m \in ns : m.label = n.label /\ m.id = n.id

\* The sets of store-call indexes that may throw within one operation of
\* n store calls.
FaultSets(n) == {f \in SUBSET (1..n) : Cardinality(f) <= MaxFaults}

Call(q, arg, out) == [q |-> q, arg |-> arg, out |-> out]

\* The requests the server handles at the same time.
Callers == {"a", "b"}

(***************************************************************************)
(* tests/conftest.py: direct writes to the store.                          *)
(***************************************************************************)
\* CREATE (n:{label} $properties) RETURN n
CreateTestNode(n) ==
    /\ nodes' = IF ViolatesUniqueId(nodes, n) THEN nodes ELSE nodes \cup {n}
    /\ UNCHANGED <<inflight, adapter>>
    /\ req' = [op |-> "none"]
    /\ resp' = [code |-> 0]
    /\ calls' = <<>>
    /\ UNCHANGED edges

\* MATCH (a {id: $source_id}) MATCH (b {id: $target_id})
\* CREATE (a)-[r:{rel_type}]->(b) RETURN r
CreateTestRelationship(e) ==
    /\ Copies(edges, e.src, e.type, e.dst) < MaxCopies
    /\ BagCardinality(edges) < MaxEdges
    /\ edges' = IF (\E a \in nodes : a.id = e.src) /\ (\E b \in nodes : b.id = e.dst)
                THEN edges (+) SetToBag({e})
                ELSE edges
    /\ UNCHANGED <<inflight, adapter>>
    /\ req' = [op |-> "none"]
    /\ resp' = [code |-> 0]
    /\ calls' = <<>>
    /\ UNCHANGED nodes

(***************************************************************************)
(* BaseService._node_exists: MATCH (n {id: $id}) RETURN count(n); an       *)
(* exception of the store call is logged and answered as False.            *)
(***************************************************************************)
NodeExists(ns, id, throws) ==
    IF throws THEN FALSE ELSE \E n \in ns : n.id = id

(***************************************************************************)
(* GET_HAZARD_COVERAGE.                                                    *)
(***************************************************************************)
\* A variant that stops at the technical requirement and takes any test case.
CoveragePaths_NoVerifiedBy(ns, es, hid) ==
    {p \in IdsWith(ns, "SafetyGoal") \X IdsWith(ns, "FunctionalSafetyRequirement")
           \X IdsWith(ns, "TechnicalSafetyRequirement") \X IdsWith(ns, "TestCase")
           \X (1..MaxCopies) \X (1..MaxCopies) \X (1..MaxCopies) \X {1} :
        /\ p[5] <= Copies(es, hid, "MITIGATED_BY", p[1])
        /\ p[6] <= Copies(es, p[1], "REFINED_TO", p[2])
        /\ p[7] <= Copies(es, p[2], "REFINED_TO", p[3])}

\* The matches of the OPTIONAL MATCH pattern for hazard hid: one per
\* concrete path, parallel relationships giving distinct paths.
CoveragePaths(ns, es, hid) ==
    {p \in IdsWith(ns, "SafetyGoal") \X IdsWith(ns, "FunctionalSafetyRequirement")
           \X IdsWith(ns, "TechnicalSafetyRequirement") \X IdsWith(ns, "TestCase")
           \X (1..MaxCopies) \X (1..MaxCopies) \X (1..MaxCopies) \X (1..MaxCopies) :
        /\ p[5] <= Copies(es, hid, "MITIGATED_BY", p[1])
        /\ p[6] <= Copies(es, p[1], "REFINED_TO", p[2])
        /\ p[7] <= Copies(es, p[2], "REFINED_TO", p[3])
        /\ p[8] <= Copies(es, p[3], "VERIFIED_BY", p[4])}

CoverageStatus(complete_chains, safety_goals) ==
    IF complete_chains > 0 THEN "full"
    ELSE IF Cardinality(safety_goals) > 0 THEN "partial"
    ELSE "none"

\* The rows of GET_HAZARD_COVERAGE: one per Hazard node with the id.
HazardCoverageRows(ns, es, hid) ==
    {[hazard |-> h.id,
      safety_goals |-> {p[1] : p \in CoveragePaths(ns, es, hid)},
      test_cases |-> {p[4] : p \in CoveragePaths(ns, es, hid)},
      complete_chains |-> Cardinality(CoveragePaths(ns, es, hid)),
      coverage_status |-> CoverageStatus(
          Cardinality(CoveragePaths(ns, es, hid)),
          {p[1] : p \in CoveragePaths(ns, es, hid)})]
     : h \in {n \in NodesWith(ns, "Hazard") : n.id = hid}}

\* AnalyticsService.get_hazard_coverage behind GET /analytics/coverage/hazard/{id}
GetHazardCoverage(hid, faults) ==
    LET exists == NodeExists(nodes, hid, 1 \in faults)
        rows == HazardCoverageRows(nodes, edges, hid)
        c1 == Call("NODE_EXISTS", hid, IF 1 \in faults THEN "threw" ELSE "ok")
        c2 == Call("GET_HAZARD_COVERAGE", hid, IF 2 \in faults THEN "threw" ELSE "ok")
    IN  /\ UNCHANGED <<inflight, adapter>>
        /\ req' = [op |-> "get_hazard_coverage", id |-> hid, faults |-> faults]
        /\ IF ~exists
           THEN /\ resp' = [code |-> 404, status |-> "error"]
                /\ calls' = <<c1>>
           ELSE IF 2 \in faults
           THEN /\ resp' = [code |-> 500, status |-> "error"]
                /\ calls' = <<c1, c2>>
           ELSE IF rows = {}
           THEN /\ resp' = [code |-> 404, status |-> "error"]
                /\ calls' = <<c1, c2>>
           ELSE /\ resp' = [code |-> 200, status |-> "success",
                            coverage |-> CHOOSE r \in rows : TRUE]
                /\ calls' = <<c1, c2>>
        /\ UNCHANGED <<nodes, edges>>

(***************************************************************************)
(* Coverage of all hazards, and the aggregate statistics.                  *)
(***************************************************************************)
\* Cypher orders texts character by character: the ASIL texts ascending,
\* and the number parts of the ids ascending.
AsilTextOrder == <<"A", "B", "C", "D", "QM">>
NumberTextOrder == <<"001", "002", "003", "009">>
IndexIn(seq, x) == CHOOSE i \in 1..Len(seq) : seq[i] = x

\* A variant of the ORDER BY clause that sorts the ASIL texts ascending.
HazardBefore_Ascending(a, b) ==
    \/ IndexIn(AsilTextOrder, a.asil) < IndexIn(AsilTextOrder, b.asil)
    \/ /\ a.asil = b.asil
       /\ IndexIn(NumberTextOrder, a.id[3]) < IndexIn(NumberTextOrder, b.id[3])

\* ORDER BY h.asil DESC, h.id
HazardBefore(a, b) ==
    \/ IndexIn(AsilTextOrder, a.asil) > IndexIn(AsilTextOrder, b.asil)
    \/ /\ a.asil = b.asil
       /\ IndexIn(NumberTextOrder, a.id[3]) < IndexIn(NumberTextOrder, b.id[3])

SortedHazards(hs) ==
    CHOOSE sq \in [1..Cardinality(hs) -> hs] :
        \A i, j \in 1..Cardinality(hs) : i < j => HazardBefore(sq[i], sq[j])

\* asil_filter of get_all_hazards_coverage: None, or a list of texts; the
\* filtered statement runs only for a list that is not empty.
NoFilter == [given |-> FALSE, levels |-> {}]
Filter(levels) == [given |-> TRUE, levels |-> levels]
Truthy(asil_filter) == asil_filter.given /\ asil_filter.levels # {}

\* A variant without the WHERE clause.
MatchedHazards_Unfiltered(ns, asil_filter) == NodesWith(ns, "Hazard")

\* MATCH (h:Hazard) [WHERE h.asil IN $asil_levels]
MatchedHazards(ns, asil_filter) ==
    {h \in NodesWith(ns, "Hazard") :
        Truthy(asil_filter) => h.asil \in asil_filter.levels}

\* One row per matched hazard node: WITH h, collect(DISTINCT ...), ...
AllHazardsCoverageItem(ns, es, h) ==
    [hazard_id |-> h.id,
     asil |-> h.asil,
     safety_goals |-> {p[1] : p \in CoveragePaths(ns, es, h.id)},
     test_cases |-> {p[4] : p \in CoveragePaths(ns, es, h.id)},
     coverage_status |-> CoverageStatus(
         Cardinality({p[4] : p \in CoveragePaths(ns, es, h.id)}),
         {p[1] : p \in CoveragePaths(ns, es, h.id)})]

AllHazardsCoverageRows(ns, es, asil_filter) ==
    LET hs == SortedHazards(MatchedHazards(ns, asil_filter))
    IN  [i \in 1..Len(hs) |-> AllHazardsCoverageItem(ns, es, hs[i])]

CountStatus(items, st) ==
    Cardinality({i \in 1..Len(items) : items[i].coverage_status = st})

\* A variant that divides in whole numbers before it multiplies.
Percentage_WholeDivision(fully_covered, total) ==
    IF total > 0 THEN [num |-> (fully_covered \div total) * 100, den |-> 1]
    ELSE [num |-> 0, den |-> 1]

\* fully_covered / total * 100, as the exact fraction num / den.
Percentage(fully_covered, total) ==
    IF total > 0 THEN [num |-> fully_covered * 100, den |-> total]
    ELSE [num |-> 0, den |-> 1]

\* AnalyticsService.get_all_hazards_coverage behind
\* GET /analytics/coverage/hazards
GetAllHazardsCoverage(asil_filter, faults) ==
    LET items == AllHazardsCoverageRows(nodes, edges, asil_filter)
        total == Len(items)
        fully_covered == CountStatus(items, "full")
    IN  /\ UNCHANGED <<inflight, adapter>>
        /\ req' = [op |-> "get_all_hazards_coverage", asil_filter |-> asil_filter,
                   faults |-> faults]
        /\ calls' = <<Call("GET_ALL_HAZARDS_COVERAGE", asil_filter,
                           IF 1 \in faults THEN "threw" ELSE "ok")>>
        /\ resp' = IF 1 \in faults
                   THEN [code |-> 500, status |-> "error"]
                   ELSE [code |-> 200, status |-> "success",
                         data |-> [summary |->
                                     [total_hazards |-> total,
                                      fully_covered |-> fully_covered,
                                      partially_covered |-> CountStatus(items, "partial"),
                                      not_covered |-> CountStatus(items, "none"),
                                      coverage_percentage |->
                                          Percentage(fully_covered, total)],
                                   hazards |-> items]]
        /\ UNCHANGED <<nodes, edges>>

\* A variant whose not_covered counts the hazards no safety goal mitigates.
CoverageStatistics_NoGoalIsNotCovered(ns, es) ==
    LET hs == NodesWith(ns, "Hazard")
        test_count(h) == Cardinality({p[4] : p \in CoveragePaths(ns, es, h.id)})
        goals(h) == {sg \in IdsWith(ns, "SafetyGoal") :
                        Copies(es, h.id, "MITIGATED_BY", sg) > 0}
        total_hazards == Cardinality(hs)
        fully_covered == Cardinality({h \in hs : test_count(h) > 0})
        not_covered == Cardinality({h \in hs : test_count(h) = 0 /\ goals(h) = {}})
    IN  [total_hazards |-> total_hazards,
         fully_covered |-> fully_covered,
         partially_covered |-> total_hazards - fully_covered - not_covered,
         not_covered |-> not_covered,
         coverage_percentage |-> Percentage(fully_covered, total_hazards)]

\* GET_COVERAGE_STATISTICS: per hazard count(DISTINCT tc), then the sums.
CoverageStatistics(ns, es) ==
    LET hs == NodesWith(ns, "Hazard")
        test_count(h) == Cardinality({p[4] : p \in CoveragePaths(ns, es, h.id)})
        total_hazards == Cardinality(hs)
        fully_covered == Cardinality({h \in hs : test_count(h) > 0})
        not_covered == Cardinality({h \in hs : test_count(h) = 0})
    IN  [total_hazards |-> total_hazards,
         fully_covered |-> fully_covered,
         partially_covered |-> total_hazards - fully_covered - not_covered,
         not_covered |-> not_covered,
         coverage_percentage |-> Percentage(fully_covered, total_hazards)]

\* AnalyticsService.get_coverage_statistics behind
\* GET /analytics/coverage/statistics
GetCoverageStatistics(faults) ==
    /\ UNCHANGED <<inflight, adapter>>
    /\ req' = [op |-> "get_coverage_statistics", faults |-> faults]
    /\ calls' = <<Call("GET_COVERAGE_STATISTICS", Null,
                       IF 1 \in faults THEN "threw" ELSE "ok")>>
    /\ resp' = IF 1 \in faults
               THEN [code |-> 500, status |-> "error"]
               ELSE [code |-> 200, status |-> "success",
                     statistics |-> CoverageStatistics(nodes, edges)]
    /\ UNCHANGED <<nodes, edges>>

AsilFilters == {NoFilter, Filter({}), Filter({"D"}), Filter({"C", "D"}), Filter({"A"})}

(***************************************************************************)
(* Entity schemas (app/models/nodes.py).  A payload is a record of the     *)
(* fields that carry a value; an absent or None field is not in its domain.*)
(***************************************************************************)
Has(d, f) == f \in DOMAIN d
InRange(d, f, lo, hi) == Has(d, f) => d[f] \in lo..hi
NonEmpty(d, f) == Has(d, f) /\ d[f] # ""

\* A variant without the bounds of the numeric fields.
ValidHazard_NoRange(h) ==
    /\ MatchesIdPattern(h.id, {"H"})
    /\ NonEmpty(h, "description")
    /\ h.asil \in ASILLevel

\* HazardNode
ValidHazard(h) ==
    /\ MatchesIdPattern(h.id, {"H"})
    /\ NonEmpty(h, "description")
    /\ h.asil \in ASILLevel
    /\ InRange(h, "severity", 0, 3)
    /\ InRange(h, "exposure", 0, 4)
    /\ InRange(h, "controllability", 0, 3)

\* ScenarioNode
ValidScenario(sc) ==
    /\ MatchesIdPattern(sc.id, {"SC", "SCN"})
    /\ NonEmpty(sc, "name")

\* A variant without validate_safety_goal_asil.
ValidSafetyGoal_AllowsQM(sg) ==
    /\ MatchesIdPattern(sg.id, {"SG"})
    /\ NonEmpty(sg, "description")
    /\ sg.asil \in ASILLevel

\* SafetyGoalNode, with validate_safety_goal_asil
ValidSafetyGoal(sg) ==
    /\ MatchesIdPattern(sg.id, {"SG"})
    /\ NonEmpty(sg, "description")
    /\ sg.asil \in ASILLevel
    /\ sg.asil # "QM"

\* FunctionalSafetyRequirementNode, with validate_fsr_asil
ValidFSR(fsr) ==
    /\ MatchesIdPattern(fsr.id, {"FSR"})
    /\ NonEmpty(fsr, "text")
    /\ fsr.asil \in ASILLevel
    /\ fsr.asil # "QM"

\* FMEAEntryNode: failure_mode, effect, cause and detection are required.
ValidFMEAEntry(e) ==
    /\ MatchesIdPattern(e.id, {"FMEA"})
    /\ {"failure_mode", "effect", "cause", "detection"} \subseteq DOMAIN e
    /\ InRange(e, "rpn", 1, 1000)
    /\ InRange(e, "severity", 1, 10)
    /\ InRange(e, "occurrence", 1, 10)

\* FailureModeNode: name is required.
ValidFailureMode(fm) == NonEmpty(fm, "name")

All(seq, P(_)) == \A i \in 1..Len(seq) : P(seq[i])

\* HARAImportRequest
ValidHARARequest(r) ==
    /\ All(r.hazards, ValidHazard)
    /\ All(r.scenarios, ValidScenario)
    /\ All(r.safety_goals, ValidSafetyGoal)

\* RequirementsImportRequest: declares functional_safety_requirements,
\* technical_safety_requirements and relationships; any other key of the
\* body, "fsrs" included, is ignored.
RequirementsImportRequestFields ==
    {"functional_safety_requirements", "technical_safety_requirements",
     "relationships"}

ValidRequirementsRequest(r) ==
    Has(r, "functional_safety_requirements")
        => All(r.functional_safety_requirements, ValidFSR)

\* FMEAImportRequest: declares fmea_entries, failure_modes and relationships;
\* any other key of the body, "components" included, is ignored.
FMEAImportRequestFields == {"fmea_entries", "failure_modes", "relationships"}

ValidFMEARequest(r) ==
    /\ All(r.fmea_entries, ValidFMEAEntry)
    /\ All(r.failure_modes, ValidFailureMode)

(***************************************************************************)
(* Node and relationship creation (app/services/base_service.py over the   *)
(* statements of app/db/queries.py).                                       *)
(***************************************************************************)
\* The parameters each CREATE statement names.
CREATE_HAZARD ==
    {"id", "description", "asil", "severity", "exposure", "controllability"}
CREATE_SCENARIO ==
    {"id", "name", "description", "operating_mode", "environment"}
CREATE_SAFETY_GOAL ==
    {"id", "description", "asil", "safe_state", "fault_tolerance_time"}

\* model_dump(exclude_none=True) followed by build_node_properties: the
\* names of the fields that carry a value.
build_node_properties(data) == DOMAIN data

\* BaseService._create_node: the statement is rejected when it names a
\* parameter that was not supplied or when the node would violate the
\* uniqueness constraint; any exception is logged and raised again.
CreateNode(ns, label, params, data, throws) ==
    LET n == Node(label, data.id,
                  IF "asil" \in DOMAIN data THEN data.asil ELSE Null)
    IN  IF \/ throws
           \/ ~(params \subseteq build_node_properties(data))
           \/ ViolatesUniqueId(ns, n)
        THEN [nodes |-> ns, out |-> "threw"]
        ELSE [nodes |-> ns \cup {n}, out |-> "ok"]

\* A variant that creates the relationship without matching its endpoints.
CreateRelationship_Unmatched(ns, es, pair, throws) ==
    IF throws
    THEN [edges |-> es, out |-> "threw", rows |-> 0]
    ELSE [edges |-> es (+) SetToBag({Edge(pair.src, pair.type, pair.dst)}),
          out |-> "ok", rows |-> 1]

\* BaseService._create_relationship with CREATE_RELATIONSHIP: one
\* relationship per pair of matched nodes, none when an endpoint is not
\* matched; the rows come back (result[0] if result else {}) and only an
\* exception of the store call is raised.
CreateRelationship(ns, es, pair, throws) ==
    LET rows == {ab \in ns \X ns : ab[1].id = pair.src /\ ab[2].id = pair.dst}
    IN  IF throws
        THEN [edges |-> es, out |-> "threw", rows |-> 0]
        ELSE [edges |-> IF rows = {} THEN es
                        ELSE es (+) SetToBag({Edge(pair.src, pair.type, pair.dst)}),
              out |-> "ok", rows |-> Cardinality(rows)]

(***************************************************************************)
(* The import loops (app/services/hara_import.py): each item in its own    *)
(* try block, an exception logged and the loop continued.                  *)
(***************************************************************************)
\* st = [nodes, edges, calls, count]: the graph, the store calls made so
\* far and the running created_count of the current loop.

\* A variant with the try block around the loop: the first exception ends it.
RECURSIVE ImportNodeLoop_Abort(_, _, _, _, _, _)
ImportNodeLoop_Abort(st, items, query, label, params, faults) ==
    IF items = <<>> THEN st
    ELSE LET r == CreateNode(st.nodes, label, params, Head(items),
                             (Len(st.calls) + 1) \in faults)
             st1 == [nodes |-> r.nodes, edges |-> st.edges,
                     calls |-> Append(st.calls, Call(query, Head(items).id, r.out)),
                     count |-> IF r.out = "ok" THEN st.count + 1 ELSE st.count]
         IN  IF r.out = "threw" THEN st1
             ELSE ImportNodeLoop_Abort(st1, Tail(items), query, label, params, faults)

RECURSIVE ImportNodeLoop(_, _, _, _, _, _)
ImportNodeLoop(st, items, query, label, params, faults) ==
    IF items = <<>> THEN st
    ELSE LET r == CreateNode(st.nodes, label, params, Head(items),
                             (Len(st.calls) + 1) \in faults)
         IN  ImportNodeLoop(
                 [nodes |-> r.nodes, edges |-> st.edges,
                  calls |-> Append(st.calls, Call(query, Head(items).id, r.out)),
                  count |-> IF r.out = "ok" THEN st.count + 1 ELSE st.count],
                 Tail(items), query, label, params, faults)

\* HARAImportService._import_relationships: the pairs of every relationship
\* kind, in the order the map holds them.
RECURSIVE ImportRelationshipLoop(_, _, _)
ImportRelationshipLoop(st, pairs, faults) ==
    IF pairs = <<>> THEN st
    ELSE LET r == CreateRelationship(st.nodes, st.edges, Head(pairs),
                                     (Len(st.calls) + 1) \in faults)
         IN  ImportRelationshipLoop(
                 [nodes |-> st.nodes, edges |-> r.edges,
                  calls |-> Append(st.calls,
                      Call("CREATE_RELATIONSHIP", Head(pairs),
                           IF r.out = "threw" THEN "threw"
                           ELSE IF r.rows = 0 THEN "no_match" ELSE "ok")),
                  count |-> IF r.out = "ok" THEN st.count + 1 ELSE st.count],
                 Tail(pairs), faults)

Restart(st) == [st EXCEPT !.count = 0]

WithinBounds(es) ==
    /\ BagCardinality(es) <= MaxEdges
    /\ \A e \in BagToSet(es) : CopiesIn(e, es) <= MaxCopies

\* POST /import/hara: the body is validated against HARAImportRequest, then
\* HARAImportService.import_hara imports hazards, scenarios, safety goals
\* and relationships in this order.
ImportHara(r, faults) ==
    LET s0 == [nodes |-> nodes, edges |-> edges, calls |-> <<>>, count |-> 0]
        s1 == ImportNodeLoop(s0, r.hazards, "CREATE_HAZARD", "Hazard",
                             CREATE_HAZARD, faults)
        s2 == ImportNodeLoop(Restart(s1), r.scenarios, "CREATE_SCENARIO",
                             "Scenario", CREATE_SCENARIO, faults)
        s3 == ImportNodeLoop(Restart(s2), r.safety_goals, "CREATE_SAFETY_GOAL",
                             "SafetyGoal", CREATE_SAFETY_GOAL, faults)
        s4 == ImportRelationshipLoop(Restart(s3), r.relationships, faults)
    IN  /\ UNCHANGED <<inflight, adapter>>
        /\ req' = [op |-> "import_hara", request |-> r, faults |-> faults]
        /\ IF ~ValidHARARequest(r)
           THEN /\ resp' = [code |-> 422, status |-> "error"]
                /\ calls' = <<>>
                /\ UNCHANGED <<nodes, edges>>
           ELSE /\ WithinBounds(s4.edges)
                /\ nodes' = s4.nodes
                /\ edges' = s4.edges
                /\ calls' = s4.calls
                /\ resp' = [code |-> 201, status |-> "success",
                            data |-> [hazards_created |-> s1.count,
                                      scenarios_created |-> s2.count,
                                      safety_goals_created |-> s3.count,
                                      relationships_created |-> s4.count]]

\* POST /import/fmea: the body is validated against FMEAImportRequest, then
\* FMEAImportService.import_fmea reads request.components first; the request
\* model has no such attribute, the read raises AttributeError and the route
\* answers 500 before any store call.
ImportFmea(r) ==
    /\ UNCHANGED <<inflight, adapter>>
    /\ req' = [op |-> "import_fmea", request |-> r]
    /\ resp' = IF ~ValidFMEARequest(r)
               THEN [code |-> 422, status |-> "error"]
               ELSE IF "components" \notin FMEAImportRequestFields
               THEN [code |-> 500, status |-> "error"]
               ELSE [code |-> 201, status |-> "success"]
    /\ calls' = <<>>
    /\ UNCHANGED <<nodes, edges>>

\* POST /import/requirements: the body is validated against
\* RequirementsImportRequest, then
\* RequirementsImportService.import_requirements reads request.fsrs first;
\* the request model has no such attribute, the read raises AttributeError
\* and the route answers 500 before any store call.
ImportRequirements(r) ==
    /\ UNCHANGED <<inflight, adapter>>
    /\ req' = [op |-> "import_requirements", request |-> r]
    /\ resp' = IF ~ValidRequirementsRequest(r)
               THEN [code |-> 422, status |-> "error"]
               ELSE IF "fsrs" \notin RequirementsImportRequestFields
               THEN [code |-> 500, status |-> "error"]
               ELSE [code |-> 201, status |-> "success"]
    /\ calls' = <<>>
    /\ UNCHANGED <<nodes, edges>>

(***************************************************************************)
(* Requests.                                                               *)
(***************************************************************************)
SeqsUpTo(S, n) == UNION {[1..k -> S] : k \in 0..n}

HazardPayloads ==
    {\* every optional field given
     [id |-> H001, description |-> "Test", asil |-> "D",
      severity |-> 3, exposure |-> 4, controllability |-> 3],
     \* the same id again, with another asil
     [id |-> H001, description |-> "Test", asil |-> "QM",
      severity |-> 3, exposure |-> 4, controllability |-> 3],
     \* required fields only
     [id |-> H002, description |-> "Test", asil |-> "C"],
     \* severity out of range
     [id |-> H002, description |-> "Test", asil |-> "QM",
      severity |-> 9, exposure |-> 4, controllability |-> 3],
     \* id pattern and enum violated
     [id |-> INVALID_ID, description |-> "Test", asil |-> "Z"]}

SafetyGoalPayloads ==
    {[id |-> SG001, description |-> "Test", asil |-> "D"],
     [id |-> SG002, description |-> "Test", asil |-> "QM"]}

ScenarioPayloads ==
    {[id |-> SC001, name |-> "Highway"]}

Pair(t, s, d) == [type |-> t, src |-> s, dst |-> d]

HaraPairs ==
    {Pair("MITIGATED_BY", H001, SG001), Pair("MITIGATED_BY", H001, SG002),
     Pair("MITIGATED_BY", H001, SG009)}

\* The request of test_import_complete_hara: one hazard, one scenario and
\* one safety goal, every field of the node models given, and the two
\* relationships between them.
CompleteHARARequest ==
    [hazards |-> <<[id |-> H001, description |-> "Test", asil |-> "D",
                    severity |-> 3, exposure |-> 4, controllability |-> 3]>>,
     scenarios |-> <<[id |-> SC001, name |-> "Highway",
                      description |-> "Test operating scenario"]>>,
     safety_goals |-> <<[id |-> SG001, description |-> "Test", asil |-> "D"]>>,
     relationships |-> <<Pair("OCCURS_IN", H001, SC001),
                         Pair("MITIGATED_BY", H001, SG001)>>]

\* Requests that import nodes, requests that link hazard H-001, and the
\* complete request.
HARARequests ==
    [hazards : SeqsUpTo(HazardPayloads, MaxHazards),
     scenarios : {<<>>} \cup {<<sc>> : sc \in ScenarioPayloads},
     safety_goals : {<<>>} \cup {<<sg>> : sg \in SafetyGoalPayloads},
     relationships : {<<>>}]
    \cup
    [hazards : {<<>>} \cup {<<h>> : h \in {p \in HazardPayloads : p.id = H001}},
     scenarios : {<<>>},
     safety_goals : {<<>>},
     relationships : SeqsUpTo(HaraPairs, MaxPairs) \ {<<>>}]
    \cup {CompleteHARARequest}

NumCalls(r) ==
    Len(r.hazards) + Len(r.scenarios) + Len(r.safety_goals) + Len(r.relationships)

FMEARequests ==
    [components : {<<>>, <<[id |-> C001, name |-> "Test", component_type |-> "hardware"]>>},
     failure_modes : {<<>>, <<[name |-> "Short circuit"]>>,
                      <<[id |-> FM001, description |-> "Short circuit"]>>},
     fmea_entries : {<<>>,
         <<[id |-> FMEA001, failure_mode |-> "Short", effect |-> "Loss",
            cause |-> "Wear", detection |-> "BIST", rpn |-> 240,
            severity |-> 8, occurrence |-> 3]>>,
         <<[id |-> FMEA001, failure_mode |-> "Short", effect |-> "Loss",
            cause |-> "Wear", detection |-> "BIST", rpn |-> 1500,
            severity |-> 10, occurrence |-> 10]>>},
     relationships : {<<>>, <<Pair("HAS_FAILURE_MODE", C001, FM001)>>}]

FSRPayloads ==
    {[id |-> FSR001, text |-> "Test", asil |-> "D"],
     [id |-> FSR001, text |-> "Test", asil |-> "QM"]}

\* Bodies under the declared key, and under the key "fsrs".
RequirementsRequests ==
    {[functional_safety_requirements |-> <<f>>] : f \in FSRPayloads}
        \cup {[fsrs |-> <<f>>] : f \in FSRPayloads}

(***************************************************************************)
(* The coverage engine over graphs written directly to the store.          *)
(***************************************************************************)
CoverageSeedNodes ==
    {Node("Hazard", H001, "D"), Node("Hazard", H002, "C"),
     Node("SafetyGoal", SG001, "D"), Node("SafetyGoal", SG002, "C"),
     Node("FunctionalSafetyRequirement", FSR001, "D"),
     Node("TechnicalSafetyRequirement", TSR001, Null),
     Node("TestCase", TC001, Null)}

CoverageSeedEdges ==
    {Edge(H001, "MITIGATED_BY", SG001), Edge(H001, "MITIGATED_BY", SG002),
     Edge(H002, "MITIGATED_BY", SG002),
     Edge(SG001, "REFINED_TO", FSR001), Edge(FSR001, "REFINED_TO", TSR001),
     Edge(SG002, "REFINED_TO", TSR001),
     Edge(TSR001, "VERIFIED_BY", TC001)}

\* The module state of app/db/neo4j_driver.py before the first call:
\* Neo4jDriver._instance and _neo4j_driver are None (0), no Neo4jDriver
\* object and no connection pool exists, no session is open.
NoAdapter ==
    [instance |-> 0, objects |-> <<>>, global |-> 0, pools |-> {}, made |-> 0,
     sessions |-> {}]

Init ==
    /\ nodes = {}
    /\ edges = EmptyBag
    /\ req = [op |-> "none"]
    /\ resp = [code |-> 0]
    /\ calls = <<>>
    /\ inflight = [c \in Callers |-> [pc |-> "idle"]]
    /\ adapter = NoAdapter

\* The api_client of tests/conftest.py is synchronous: a request is sent
\* once the answer to the previous one has been received.
Idle == req.op = "none"

ReceiveResponse ==
    /\ ~Idle
    /\ UNCHANGED <<inflight, adapter>>
    /\ req' = [op |-> "none"]
    /\ resp' = [code |-> 0]
    /\ calls' = <<>>
    /\ UNCHANGED <<nodes, edges>>

NextCoverage ==
    \/ Idle /\ \E n \in CoverageSeedNodes : CreateTestNode(n)
    \/ Idle /\ \E e \in CoverageSeedEdges : CreateTestRelationship(e)
    \/ Idle /\ \E hid \in {H001, H002, SG001} :
                   \E f \in FaultSets(2) : GetHazardCoverage(hid, f)
    \/ Idle /\ \E af \in AsilFilters :
                   \E f \in FaultSets(1) : GetAllHazardsCoverage(af, f)
    \/ Idle /\ \E f \in FaultSets(1) : GetCoverageStatistics(f)
    \/ ReceiveResponse

SpecCoverage == Init /\ [][NextCoverage]_vars
(***************************************************************************)
(* GET_COMPONENT_IMPACT.                                                   *)
(***************************************************************************)
\* Matches of (c)-[:IMPLEMENTS]->(f:Function)-[:CONTRIBUTES_TO]->
\* (sg:SafetyGoal)<-[:MITIGATED_BY]-(h:Hazard): the whole pattern or nothing.
ImpactHazardMatches(ns, es, cid) ==
    {p \in IdsWith(ns, "Function") \X IdsWith(ns, "SafetyGoal") \X IdsWith(ns, "Hazard")
           \X (1..MaxCopies) \X (1..MaxCopies) \X (1..MaxCopies) :
        /\ p[4] <= Copies(es, cid, "IMPLEMENTS", p[1])
        /\ p[5] <= Copies(es, p[1], "CONTRIBUTES_TO", p[2])
        /\ p[6] <= Copies(es, p[3], "MITIGATED_BY", p[2])}

\* Matches of (c)-[:HAS_FAILURE_MODE]->(fm:FailureMode)-[:ANALYZED_IN]->
\* (fmea:FMEAEntry): the whole pattern or nothing.
ImpactFailureModeMatches(ns, es, cid) ==
    {p \in IdsWith(ns, "FailureMode") \X IdsWith(ns, "FMEAEntry")
           \X (1..MaxCopies) \X (1..MaxCopies) :
        /\ p[3] <= Copies(es, cid, "HAS_FAILURE_MODE", p[1])
        /\ p[4] <= Copies(es, p[1], "ANALYZED_IN", p[2])}

\* Matches of (c)-[:VERIFIED_BY]->(tc:TestCase).
ImpactTestMatches(ns, es, cid) ==
    {p \in IdsWith(ns, "TestCase") \X (1..MaxCopies) :
        p[2] <= Copies(es, cid, "VERIFIED_BY", p[1])}

\* Matches of (c)<-[:FOUND_IN]-(d:DefectInstance).
ImpactDefectMatches(ns, es, cid) ==
    {p \in IdsWith(ns, "DefectInstance") \X (1..MaxCopies) :
        p[2] <= Copies(es, p[1], "FOUND_IN", cid)}

ImpactScore(hazards, safety_goals, failure_modes) ==
    Cardinality(hazards) * 10 + Cardinality(safety_goals) * 5
        + Cardinality(failure_modes) * 3

\* A variant that collects without DISTINCT: impact_score counts the rows
\* that bind a hazard, a safety goal and a failure mode.
ComponentImpactRows_CollectAll(ns, es, cid) ==
    {[component |-> c.id,
      hazards |-> {p[3] : p \in ImpactHazardMatches(ns, es, cid)},
      safety_goals |-> {p[2] : p \in ImpactHazardMatches(ns, es, cid)},
      functions |-> {p[1] : p \in ImpactHazardMatches(ns, es, cid)},
      test_cases |-> {p[1] : p \in ImpactTestMatches(ns, es, cid)},
      failure_modes |-> {p[1] : p \in ImpactFailureModeMatches(ns, es, cid)},
      fmea_entries |-> {p[2] : p \in ImpactFailureModeMatches(ns, es, cid)},
      defects |-> {p[1] : p \in ImpactDefectMatches(ns, es, cid)},
      impact_score |-> ImpactScore(
          ImpactHazardMatches(ns, es, cid),
          ImpactHazardMatches(ns, es, cid),
          ImpactFailureModeMatches(ns, es, cid))]
     : c \in {n \in NodesWith(ns, "Component") : n.id = cid}}

\* The rows of GET_COMPONENT_IMPACT: one per Component node with the id,
\* each collect(DISTINCT x) being the set of the x bound in some row.
ComponentImpactRows(ns, es, cid) ==
    {[component |-> c.id,
      hazards |-> {p[3] : p \in ImpactHazardMatches(ns, es, cid)},
      safety_goals |-> {p[2] : p \in ImpactHazardMatches(ns, es, cid)},
      functions |-> {p[1] : p \in ImpactHazardMatches(ns, es, cid)},
      test_cases |-> {p[1] : p \in ImpactTestMatches(ns, es, cid)},
      failure_modes |-> {p[1] : p \in ImpactFailureModeMatches(ns, es, cid)},
      fmea_entries |-> {p[2] : p \in ImpactFailureModeMatches(ns, es, cid)},
      defects |-> {p[1] : p \in ImpactDefectMatches(ns, es, cid)},
      impact_score |-> ImpactScore(
          {p[3] : p \in ImpactHazardMatches(ns, es, cid)},
          {p[2] : p \in ImpactHazardMatches(ns, es, cid)},
          {p[1] : p \in ImpactFailureModeMatches(ns, es, cid)})]
     : c \in {n \in NodesWith(ns, "Component") : n.id = cid}}

\* AnalyticsService.get_component_impact behind
\* GET /analytics/impact/component/{id}
GetComponentImpact(cid, faults) ==
    LET exists == NodeExists(nodes, cid, 1 \in faults)
        rows == ComponentImpactRows(nodes, edges, cid)
        c1 == Call("NODE_EXISTS", cid, IF 1 \in faults THEN "threw" ELSE "ok")
        c2 == Call("GET_COMPONENT_IMPACT", cid, IF 2 \in faults THEN "threw" ELSE "ok")
    IN  /\ UNCHANGED <<inflight, adapter>>
        /\ req' = [op |-> "get_component_impact", id |-> cid, faults |-> faults]
        /\ IF ~exists
           THEN /\ resp' = [code |-> 404, status |-> "error"]
                /\ calls' = <<c1>>
           ELSE IF 2 \in faults
           THEN /\ resp' = [code |-> 500, status |-> "error"]
                /\ calls' = <<c1, c2>>
           ELSE IF rows = {}
           THEN /\ resp' = [code |-> 404, status |-> "error"]
                /\ calls' = <<c1, c2>>
           ELSE /\ resp' = [code |-> 200, status |-> "success",
                            impact |-> CHOOSE r \in rows : TRUE]
                /\ calls' = <<c1, c2>>
        /\ UNCHANGED <<nodes, edges>>

(***************************************************************************)
(* The impact engine over graphs written directly to the store.            *)
(***************************************************************************)
ImpactSeedNodes ==
    {Node("Component", C001, Null), Node("Function", F001, Null),
     Node("Function", F002, Null), Node("SafetyGoal", SG001, "D"),
     Node("Hazard", H001, "D"), Node("FailureMode", FM001, Null),
     Node("FMEAEntry", FMEA001, Null)}

ImpactSeedEdges ==
    {Edge(C001, "IMPLEMENTS", F001), Edge(C001, "IMPLEMENTS", F002),
     Edge(F001, "CONTRIBUTES_TO", SG001), Edge(F002, "CONTRIBUTES_TO", SG001),
     Edge(H001, "MITIGATED_BY", SG001),
     Edge(C001, "HAS_FAILURE_MODE", FM001), Edge(FM001, "ANALYZED_IN", FMEA001)}

NextImpact ==
    \/ \E n \in ImpactSeedNodes : CreateTestNode(n)
    \/ \E e \in ImpactSeedEdges : CreateTestRelationship(e)
    \/ \E cid \in {C001, F001} : \E f \in FaultSets(2) : GetComponentImpact(cid, f)

SpecImpact == Init /\ [][NextImpact]_vars

(***************************************************************************)
(* The traceability chains of a hazard.                                    *)
(***************************************************************************)
\* The rows of GET_TRACEABILITY_CHAIN: one per match of the four-hop path
\* from the Hazard node with the id, parallel relationships giving
\* distinct matches; each row carries the keys of the returned map.
TraceabilityRows(ns, es, hid) ==
    {[hazard |-> hid, safety_goal |-> p[1], fsr |-> p[2], tsr |-> p[3],
      test_case |-> p[4], path |-> <<p[5], p[6], p[7], p[8]>>]
     : p \in {q \in CoveragePaths(ns, es, hid) : hid \in IdsWith(ns, "Hazard")}}

\* class TraceabilityChain(BaseModel): the fields, all required.
TraceabilityChainFields == {"safety_goal", "requirement", "test", "test_status"}

\* TraceabilityChain(hazard=, safety_goal=, fsr=, tsr=, test_case=): the
\* keyword arguments the service passes.
TraceabilityChainKeywords == {"hazard", "safety_goal", "fsr", "tsr", "test_case"}

\* Construction validates: a required field that is not passed raises
\* ValidationError, which is a ValueError.
ConstructsTraceabilityChain(keywords) == TraceabilityChainFields \subseteq keywords

\* AnalyticsService.get_traceability_chain behind
\* GET /analytics/traceability/hazard/{hazard_id}: ValueError is answered
\* 404, any other exception 500.
GetTraceabilityChain(hid, faults) ==
    LET exists == NodeExists(nodes, hid, 1 \in faults)
        rows == TraceabilityRows(nodes, edges, hid)
        c1 == Call("NODE_EXISTS", hid, IF 1 \in faults THEN "threw" ELSE "ok")
        c2 == Call("GET_TRACEABILITY_CHAIN", hid, IF 2 \in faults THEN "threw" ELSE "ok")
    IN  /\ UNCHANGED <<inflight, adapter>>
        /\ req' = [op |-> "get_traceability_chain", id |-> hid, faults |-> faults]
        /\ IF ~exists
           THEN /\ resp' = [code |-> 404, status |-> "error", raised |-> "ValueError"]
                /\ calls' = <<c1>>
           ELSE IF 2 \in faults
           THEN /\ resp' = [code |-> 500, status |-> "error", raised |-> "Exception"]
                /\ calls' = <<c1, c2>>
           ELSE IF rows # {} /\ ~ConstructsTraceabilityChain(TraceabilityChainKeywords)
           THEN /\ resp' = [code |-> 404, status |-> "error",
                            raised |-> "ValidationError"]
                /\ calls' = <<c1, c2>>
           ELSE /\ \E chains \in [1..Cardinality(rows) -> rows] :
                       /\ \A i, j \in DOMAIN chains : i # j => chains[i] # chains[j]
                       /\ resp' = [code |-> 200, status |-> "success",
                                   chains |-> chains]
                /\ calls' = <<c1, c2>>
        /\ UNCHANGED <<nodes, edges>>

TraceabilitySeedNodes ==
    {Node("Hazard", H001, "D"), Node("SafetyGoal", SG001, "D"),
     Node("FunctionalSafetyRequirement", FSR001, "D"),
     Node("TechnicalSafetyRequirement", TSR001, "D"),
     Node("TestCase", TC001, Null), Node("TestCase", TC002, Null)}

TraceabilitySeedEdges ==
    {Edge(H001, "MITIGATED_BY", SG001), Edge(SG001, "REFINED_TO", FSR001),
     Edge(FSR001, "REFINED_TO", TSR001), Edge(TSR001, "VERIFIED_BY", TC001),
     Edge(TSR001, "VERIFIED_BY", TC002)}

NextTraceability ==
    \/ Idle /\ \E n \in TraceabilitySeedNodes : CreateTestNode(n)
    \/ Idle /\ \E e \in TraceabilitySeedEdges : CreateTestRelationship(e)
    \/ Idle /\ \E hid \in {H001, H002, SG001} :
                   \E f \in FaultSets(2) : GetTraceabilityChain(hid, f)
    \/ ReceiveResponse

SpecTraceability == Init /\ [][NextTraceability]_vars

(***************************************************************************)
(* Filtering hazards by ASIL.                                              *)
(***************************************************************************)
\* The elements of a list.
Elements(list) == {list[i] : i \in DOMAIN list}

\* FILTER_HAZARDS_BY_ASIL: MATCH (h:Hazard) WHERE h.asil IN $asil_levels
\* RETURN h ORDER BY h.asil DESC, h.id
FilterHazardsRows(ns, asil_levels) ==
    SortedHazards({h \in NodesWith(ns, "Hazard") : h.asil \in Elements(asil_levels)})

\* AnalyticsService.filter_hazards_by_asil behind
\* GET /analytics/filter/hazards?asil=..&asil=..
FilterHazardsByAsil(asil_levels, faults) ==
    LET result == FilterHazardsRows(nodes, asil_levels)
    IN  /\ UNCHANGED <<inflight, adapter>>
        /\ req' = [op |-> "filter_hazards_by_asil", asil |-> asil_levels,
                   faults |-> faults]
        /\ calls' = <<Call("FILTER_HAZARDS_BY_ASIL", asil_levels,
                           IF 1 \in faults THEN "threw" ELSE "ok")>>
        /\ resp' = IF 1 \in faults
                   THEN [code |-> 500, status |-> "error"]
                   ELSE [code |-> 200, results |-> result, count |-> Len(result)]
        /\ UNCHANGED <<nodes, edges>>

FilterSeedNodes ==
    {Node("Hazard", H001, "C"), Node("Hazard", H002, "D"),
     Node("Hazard", H003, "D"), Node("Hazard", H009, "QM"),
     Node("Hazard", H009, "A"), Node("SafetyGoal", SG001, "D")}

\* The ?asil= lists of the filter requests.
AsilLists == {<<"D", "C">>, <<"C", "D">>, <<"D">>, <<"QM", "D">>, <<"A", "B">>}

NextFilter ==
    \/ Idle /\ \E n \in FilterSeedNodes : CreateTestNode(n)
    \/ Idle /\ \E l \in AsilLists : \E f \in FaultSets(1) : FilterHazardsByAsil(l, f)
    \/ ReceiveResponse

SpecFilter == Init /\ [][NextFilter]_vars

(***************************************************************************)
(* The ranking of all components by impact score.                          *)
(***************************************************************************)
ComponentNode(id, component_type) ==
    [label |-> "Component", id |-> id, asil |-> Null,
     component_type |-> component_type]

\* limit: Annotated[int, Query(ge=1, le=1000)] = 100
DefaultLimit == 100
LimitCap == 1000

\* A query string is a record of the path and the parameters the client
\* sent.
ComponentsPath == "/analytics/impact/components"

\* MATCH (c:Component) [WHERE c.component_type = $component_type]; an empty
\* text is taken as no filter.
RankedComponents(ns, q) ==
    IF Has(q, "component_type") /\ q.component_type # ""
    THEN {c \in NodesWith(ns, "Component") : c.component_type = q.component_type}
    ELSE NodesWith(ns, "Component")

\* OPTIONAL MATCH (c)-[:HAS_FAILURE_MODE]->(fm:FailureMode)
RankFailureModes(ns, es, cid) ==
    {fm \in IdsWith(ns, "FailureMode") : Copies(es, cid, "HAS_FAILURE_MODE", fm) > 0}

\* WITH c, count(DISTINCT h), count(DISTINCT sg), count(DISTINCT fm)
\* RETURN {...} AS impact
AllComponentsImpactItem(ns, es, c) ==
    LET hazards == {p[3] : p \in ImpactHazardMatches(ns, es, c.id)}
        safety_goals == {p[2] : p \in ImpactHazardMatches(ns, es, c.id)}
        failure_modes == RankFailureModes(ns, es, c.id)
    IN  [component_id |-> c.id,
         component_type |-> c.component_type,
         hazard_count |-> Cardinality(hazards),
         safety_goal_count |-> Cardinality(safety_goals),
         failure_mode_count |-> Cardinality(failure_modes),
         impact_score |-> ImpactScore(hazards, safety_goals, failure_modes)]

\* A variant of the ORDER BY clause that sorts ascending.
RankedBefore_Ascending(a, b) == a.impact_score <= b.impact_score

\* ORDER BY impact.impact_score DESC: a may stand before b.
RankedBefore(a, b) == a.impact_score >= b.impact_score

\* The orders the store may return the items in: rows of equal score stand
\* in any order.
RankedOrders(items) ==
    {s \in [1..Cardinality(items) -> items] :
        /\ \A i, j \in DOMAIN s : i # j => s[i] # s[j]
        /\ \A i, j \in DOMAIN s : i < j => RankedBefore(s[i], s[j])}

\* LIMIT n
Limit(s, n) == SubSeq(s, 1, IF n < Len(s) THEN n ELSE Len(s))

\* GET /analytics/impact/components and
\* AnalyticsService.get_all_components_impact
GetAllComponentsImpact(q, faults) ==
    LET limit == IF Has(q, "limit") THEN q.limit ELSE DefaultLimit
        items == {AllComponentsImpactItem(nodes, edges, c) :
                     c \in RankedComponents(nodes, q)}
    IN  /\ UNCHANGED <<inflight, adapter>>
        /\ req' = [op |-> "get_all_components_impact", query |-> q,
                   faults |-> faults]
        /\ IF limit < 1 \/ limit > LimitCap
           THEN /\ resp' = [code |-> 422, status |-> "error"]
                /\ calls' = <<>>
           ELSE IF 1 \in faults
           THEN /\ resp' = [code |-> 500, status |-> "error"]
                /\ calls' = <<Call("GET_ALL_COMPONENTS_IMPACT", q, "threw")>>
           ELSE /\ \E s \in RankedOrders(items) :
                       resp' = [code |-> 200, status |-> "success",
                                data |-> [components |-> Limit(s, limit),
                                          total_analyzed |-> Len(Limit(s, limit))]]
                /\ calls' = <<Call("GET_ALL_COMPONENTS_IMPACT", q, "ok")>>
        /\ UNCHANGED <<nodes, edges>>

RankingSeedNodes ==
    {ComponentNode(C001, "hardware"), ComponentNode(C002, "software"),
     ComponentNode(C003, "hardware"), Node("FailureMode", FM001, Null),
     Node("Function", F001, Null), Node("SafetyGoal", SG001, "D"),
     Node("Hazard", H001, "D")}

RankingSeedEdges ==
    {Edge(C001, "HAS_FAILURE_MODE", FM001), Edge(C002, "HAS_FAILURE_MODE", FM001),
     Edge(C003, "IMPLEMENTS", F001), Edge(F001, "CONTRIBUTES_TO", SG001),
     Edge(H001, "MITIGATED_BY", SG001)}

\* The query strings of the ranking requests.
RankingQueries ==
    {[path |-> ComponentsPath]}
        \cup {[path |-> ComponentsPath, limit |-> n] :
                  n \in {0, 1, 2, LimitCap, LimitCap + 1}}
        \cup {[path |-> ComponentsPath, component_type |-> t] :
                  t \in {"hardware", "software", ""}}
        \cup {[path |-> ComponentsPath, component_type |-> "hardware", limit |-> 1]}

NextRanking ==
    \/ Idle /\ \E n \in RankingSeedNodes : CreateTestNode(n)
    \/ Idle /\ \E e \in RankingSeedEdges : CreateTestRelationship(e)
    \/ Idle /\ \E q \in RankingQueries :
                   \E f \in FaultSets(1) : GetAllComponentsImpact(q, f)
    \/ ReceiveResponse

SpecRanking == Init /\ [][NextRanking]_vars

(***************************************************************************)
(* Relationship imports over a graph with coverage chains and impact       *)
(* paths: the pairs of a request are imported again.                       *)
(***************************************************************************)
ReimportSeedNodes ==
    {Node("Hazard", H001, "D"), Node("SafetyGoal", SG001, "D"),
     Node("FunctionalSafetyRequirement", FSR001, "D"),
     Node("TechnicalSafetyRequirement", TSR001, Null),
     Node("TestCase", TC001, Null),
     Node("Component", C001, Null), Node("Function", F001, Null)}

ReimportSeedEdges ==
    {Edge(SG001, "REFINED_TO", FSR001), Edge(FSR001, "REFINED_TO", TSR001),
     Edge(TSR001, "VERIFIED_BY", TC001),
     Edge(C001, "IMPLEMENTS", F001), Edge(F001, "CONTRIBUTES_TO", SG001)}

\* The relationships map of a HARA import request takes any relationship
\* kind and any pair of ids.
ReimportPairs ==
    {Pair("MITIGATED_BY", H001, SG001), Pair("VERIFIED_BY", TSR001, TC001),
     Pair("IMPLEMENTS", C001, F001)}

ReimportRequests ==
    [hazards : {<<>>}, scenarios : {<<>>}, safety_goals : {<<>>},
     relationships : SeqsUpTo(ReimportPairs, MaxPairs) \ {<<>>}]

NextReimport ==
    \/ Idle /\ \E n \in ReimportSeedNodes : CreateTestNode(n)
    \/ Idle /\ \E e \in ReimportSeedEdges : CreateTestRelationship(e)
    \/ Idle /\ \E r \in ReimportRequests : ImportHara(r, {})
    \/ ReceiveResponse

SpecReimport == Init /\ [][NextReimport]_vars

(***************************************************************************)
(* The import engine, with the store seeded by direct writes.              *)
(***************************************************************************)
ImportSeedNodes ==
    {Node("SafetyGoal", SG001, "D"), Node("SafetyGoal", SG002, "C"),
     Node("Component", C001, Null)}

Next ==
    \/ Idle /\ \E n \in ImportSeedNodes : CreateTestNode(n)
    \/ Idle /\ \E r \in HARARequests :
                   \E f \in FaultSets(NumCalls(r)) : ImportHara(r, f)
    \/ Idle /\ \E r \in FMEARequests : ImportFmea(r)
    \/ Idle /\ \E r \in RequirementsRequests : ImportRequirements(r)
    \/ Idle /\ \E hid \in {H001, H002} :
                   \E f \in FaultSets(2) : GetHazardCoverage(hid, f)
    \/ ReceiveResponse

Spec == Init /\ [][Next]_vars

(***************************************************************************)
(* Defect status updates (app/services/defects_import.py).                 *)
(***************************************************************************)
\* The status texts update_defect_status documents.
StatusTexts == {"open", "in_progress", "resolved", "closed", "wont_fix", "duplicate"}

\* A DefectInstance node.  resolved_date is 0 while the property is not
\* set, and otherwise counts the timestamps written so far: datetime() is
\* later than every timestamp already stored.
Defect(id, status, resolved_date) ==
    [label |-> "DefectInstance", id |-> id, asil |-> Null,
     status |-> status, resolved_date |-> resolved_date]

\* UPDATE_DEFECT_STATUS on one matched node.
SetDefectStatus(d, status) ==
    [d EXCEPT !.status = status,
              !.resolved_date = IF status = "resolved" THEN @ + 1 ELSE @]

\* DefectsImportService.update_defect_status: the existence check, then
\* the update; an empty result raises ValueError.
UpdateDefectStatus(did, status, faults) ==
    LET exists == NodeExists(nodes, did, 1 \in faults)
        matched == {n \in NodesWith(nodes, "DefectInstance") : n.id = did}
        updated == {SetDefectStatus(d, status) : d \in matched}
        c1 == Call("NODE_EXISTS", did, IF 1 \in faults THEN "threw" ELSE "ok")
        c2 == Call("UPDATE_DEFECT_STATUS", did, IF 2 \in faults THEN "threw" ELSE "ok")
    IN  /\ UNCHANGED <<inflight, adapter>>
        /\ req' = [op |-> "update_defect_status", id |-> did, status |-> status,
                   faults |-> faults]
        /\ IF ~exists
           THEN /\ resp' = [code |-> 0, status |-> "error", raised |-> "ValueError"]
                /\ calls' = <<c1>>
                /\ UNCHANGED nodes
           ELSE IF 2 \in faults
           THEN /\ resp' = [code |-> 0, status |-> "error", raised |-> "Exception"]
                /\ calls' = <<c1, c2>>
                /\ UNCHANGED nodes
           ELSE IF matched = {}
           THEN /\ resp' = [code |-> 0, status |-> "error", raised |-> "ValueError"]
                /\ calls' = <<c1, c2>>
                /\ UNCHANGED nodes
           ELSE /\ \A d \in updated : d.resolved_date <= MaxStamps
                /\ nodes' = (nodes \ matched) \cup updated
                /\ resp' = [code |-> 0, status |-> "success",
                            defect |-> CHOOSE d \in updated : TRUE]
                /\ calls' = <<c1, c2>>
        /\ UNCHANGED edges

DefectSeedNodes ==
    {Defect(D001, "open", 0), Node("Component", C001, Null)}

NextDefects ==
    \/ \E n \in DefectSeedNodes : CreateTestNode(n)
    \/ \E did \in {D001, D002, C001} : \E st \in StatusTexts :
           \E f \in FaultSets(2) : UpdateDefectStatus(did, st, f)

SpecDefects == Init /\ [][NextDefects]_vars

(***************************************************************************)
(* Imports served at the same time.  The routes are coroutines over a      *)
(* shared driver; each store call of an import is one transaction, and the *)
(* transactions of two imports interleave.  calls is the order in which    *)
(* the store ran them.                                                     *)
(***************************************************************************)
\* The store calls of HARAImportService.import_hara, in its order.
ItemsOf(kind, items) == [i \in 1..Len(items) |-> [kind |-> kind, item |-> items[i]]]

HaraItems(r) ==
    ItemsOf("hazards", r.hazards) \o ItemsOf("scenarios", r.scenarios)
        \o ItemsOf("safety_goals", r.safety_goals)
        \o ItemsOf("relationships", r.relationships)

KindLabel(kind) ==
    CASE kind = "hazards" -> "Hazard"
      [] kind = "scenarios" -> "Scenario"
      [] kind = "safety_goals" -> "SafetyGoal"

KindParams(kind) ==
    CASE kind = "hazards" -> CREATE_HAZARD
      [] kind = "scenarios" -> CREATE_SCENARIO
      [] kind = "safety_goals" -> CREATE_SAFETY_GOAL

NoneCreated ==
    [hazards |-> 0, scenarios |-> 0, safety_goals |-> 0, relationships |-> 0]

\* The route receives a body: a body that fails validation is answered at
\* once, any other starts an import.
StartImport(c, r) ==
    /\ inflight[c].pc = "idle"
    /\ inflight' = [inflight EXCEPT ![c] =
           IF ~ValidHARARequest(r)
           THEN [pc |-> "done", request |-> r, code |-> 422, status |-> "error"]
           ELSE [pc |-> "running", request |-> r, todo |-> HaraItems(r),
                 created |-> NoneCreated]]
    /\ UNCHANGED <<nodes, edges, req, resp, calls, adapter>>

\* A variant in which the creation of a node also creates the relationships
\* that earlier calls of the log found no endpoint for.
NodeStepEdges_Retry(ns, es, log) ==
    es (+) SetToBag({Edge(log[i].item.src, log[i].item.type, log[i].item.dst) :
                        i \in {j \in 1..Len(log) :
                                  /\ log[j].kind = "relationships"
                                  /\ log[j].rows = 0
                                  /\ \E a \in ns : a.id = log[j].item.src
                                  /\ \E b \in ns : b.id = log[j].item.dst}})

\* BaseService._create_node runs the CREATE statement of one node: the
\* relationships stay as they are, whatever earlier calls skipped.
NodeStepEdges(ns, es, log) == es

\* The next store call of caller c's import: one transaction.
ImportStep(c) ==
    /\ inflight[c].pc = "running"
    /\ inflight[c].todo # <<>>
    /\ LET it == Head(inflight[c].todo)
           isRel == it.kind = "relationships"
           rn == CreateNode(nodes, KindLabel(it.kind), KindParams(it.kind),
                            it.item, FALSE)
           rr == CreateRelationship(nodes, edges, it.item, FALSE)
           out == IF isRel THEN rr.out ELSE rn.out
       IN  /\ nodes' = IF isRel THEN nodes ELSE rn.nodes
           /\ edges' = IF isRel THEN rr.edges ELSE NodeStepEdges(rn.nodes, edges, calls)
           /\ WithinBounds(edges')
           /\ calls' = Append(calls,
                  [caller |-> c, kind |-> it.kind, item |-> it.item, out |-> out,
                   rows |-> IF isRel THEN rr.rows ELSE 0])
           /\ inflight' = [inflight EXCEPT
                  ![c].todo = Tail(@),
                  ![c].created[it.kind] = IF out = "ok" THEN @ + 1 ELSE @]
    /\ UNCHANGED <<req, resp, adapter>>

\* import_hara returns its statistics.
FinishImport(c) ==
    /\ inflight[c].pc = "running"
    /\ inflight[c].todo = <<>>
    /\ inflight' = [inflight EXCEPT ![c] =
           [pc |-> "done", request |-> inflight[c].request, code |-> 201,
            status |-> "success",
            data |-> [hazards_created |-> inflight[c].created.hazards,
                      scenarios_created |-> inflight[c].created.scenarios,
                      safety_goals_created |-> inflight[c].created.safety_goals,
                      relationships_created |-> inflight[c].created.relationships]]]
    /\ UNCHANGED <<nodes, edges, req, resp, calls, adapter>>

\* Every answer has been received; the callers may send again.
ReceiveAll ==
    /\ \A c \in Callers : inflight[c].pc # "running"
    /\ \E c \in Callers : inflight[c].pc = "done"
    /\ inflight' = [c \in Callers |-> [pc |-> "idle"]]
    /\ calls' = <<>>
    /\ UNCHANGED <<nodes, edges, req, resp, adapter>>

HazardD == [id |-> H001, description |-> "Test", asil |-> "D",
            severity |-> 3, exposure |-> 4, controllability |-> 3]
HazardC == [id |-> H001, description |-> "Test", asil |-> "C",
            severity |-> 3, exposure |-> 4, controllability |-> 3]

ConcurrentRequests ==
    [hazards : {<<>>, <<HazardD>>, <<HazardC>>},
     scenarios : {<<>>},
     safety_goals : {<<>>, <<[id |-> SG002, description |-> "Test", asil |-> "QM"]>>},
     relationships : {<<>>, <<Pair("MITIGATED_BY", H001, SG001)>>}]

NextConcurrent ==
    \/ (\A c \in Callers : inflight[c].pc = "idle")
       /\ CreateTestNode(Node("SafetyGoal", SG001, "D"))
    \/ \E c \in Callers : \E r \in ConcurrentRequests : StartImport(c, r)
    \/ \E c \in Callers : ImportStep(c)
    \/ \E c \in Callers : FinishImport(c)
    \/ ReceiveAll

SpecConcurrent == Init /\ [][NextConcurrent]_vars

(***************************************************************************)
(* FMEA imports served at the same time.                                   *)
(***************************************************************************)
ComponentC001 == [id |-> C001, name |-> "Test", component_type |-> "hardware"]

\* Bodies that carry the Component C-001 under the key "components".
ConcurrentFMEARequests ==
    {r \in FMEARequests : r.components = <<ComponentC001>>}

\* The route receives a body: a body that fails validation is answered at
\* once, any other starts FMEAImportService.import_fmea.
StartFmeaImport(c, r) ==
    /\ inflight[c].pc = "idle"
    /\ inflight' = [inflight EXCEPT ![c] =
           IF ~ValidFMEARequest(r)
           THEN [pc |-> "done", request |-> r, code |-> 422, status |-> "error"]
           ELSE [pc |-> "running", request |-> r]]
    /\ UNCHANGED <<nodes, edges, req, resp, calls, adapter>>

\* import_fmea evaluates request.components before its first store call:
\* the request model declares no such field, the read raises
\* AttributeError, import_fmea raises it again and the route answers 500.
ReadRequestComponents(c) ==
    /\ inflight[c].pc = "running"
    /\ inflight' = [inflight EXCEPT ![c] =
           IF "components" \notin FMEAImportRequestFields
           THEN [pc |-> "done", request |-> inflight[c].request, code |-> 500,
                 status |-> "error"]
           ELSE [pc |-> "import_components", request |-> inflight[c].request]]
    /\ UNCHANGED <<nodes, edges, req, resp, calls, adapter>>

NextConcurrentFmea ==
    \/ \E c \in Callers : \E r \in ConcurrentFMEARequests : StartFmeaImport(c, r)
    \/ \E c \in Callers : ReadRequestComponents(c)
    \/ ReceiveAll

SpecConcurrentFmea == Init /\ [][NextConcurrentFmea]_vars

(***************************************************************************)
(* app/db/neo4j_driver.py: the process-wide handle, its connection pool    *)
(* and the sessions of the store calls.  Each caller is a thread of the    *)
(* server; a step is what a thread does between two points where another   *)
(* thread may run.  Objects and pools are numbered from 1, 0 is None.       *)
(***************************************************************************)
Goto(c, local) == inflight' = [inflight EXCEPT ![c] = local]

GraphUntouched == UNCHANGED <<nodes, edges, req, resp, calls>>

\* get_neo4j_driver(): if _neo4j_driver is None
GetNeo4jDriver(c) ==
    /\ inflight[c].pc = "idle"
    /\ IF adapter.global = 0
       THEN Goto(c, [pc |-> "new", op |-> "get_neo4j_driver"])
       ELSE Goto(c, [pc |-> "return_global", op |-> "get_neo4j_driver"])
    /\ UNCHANGED adapter
    /\ GraphUntouched

\* Neo4jDriver() called directly.
Neo4jDriverCall(c) ==
    /\ inflight[c].pc = "idle"
    /\ Goto(c, [pc |-> "new", op |-> "Neo4jDriver"])
    /\ UNCHANGED adapter
    /\ GraphUntouched

\* __new__: if cls._instance is None
NewCheck(c) ==
    /\ inflight[c].pc = "new"
    /\ Goto(c, [inflight[c] EXCEPT
                   !.pc = IF adapter.instance = 0 THEN "new_create" ELSE "new_return"])
    /\ UNCHANGED adapter
    /\ GraphUntouched

\* __new__: cls._instance = super().__new__(cls); the new object's _driver
\* is the class attribute, None.
NewCreate(c) ==
    /\ inflight[c].pc = "new_create"
    /\ adapter' = [adapter EXCEPT !.objects = Append(@, 0),
                                  !.instance = Len(adapter.objects) + 1]
    /\ Goto(c, [inflight[c] EXCEPT !.pc = "new_return"])
    /\ GraphUntouched

\* __new__: return cls._instance
NewReturn(c) ==
    /\ inflight[c].pc = "new_return"
    /\ Goto(c, [pc |-> "init", op |-> inflight[c].op, self |-> adapter.instance])
    /\ UNCHANGED adapter
    /\ GraphUntouched

\* __init__: if self._driver is None
InitCheck(c) ==
    /\ inflight[c].pc = "init"
    /\ Goto(c, [inflight[c] EXCEPT
                   !.pc = IF adapter.objects[inflight[c].self] = 0
                          THEN "initialize_driver" ELSE "constructed"])
    /\ UNCHANGED adapter
    /\ GraphUntouched

\* _initialize_driver: self._driver = GraphDatabase.driver(...) opens a
\* pool; verify_connectivity() then passes or raises, the pool staying
\* assigned either way.
InitializeDriver(c, connects) ==
    /\ inflight[c].pc = "initialize_driver"
    /\ adapter.made < MaxPools
    /\ adapter' = [adapter EXCEPT !.objects[inflight[c].self] = adapter.made + 1,
                                  !.pools = @ \cup {adapter.made + 1},
                                  !.made = @ + 1]
    /\ Goto(c, IF connects
               THEN [inflight[c] EXCEPT !.pc = "constructed"]
               ELSE [pc |-> "raised", op |-> inflight[c].op,
                     raised |-> "ServiceUnavailable"])
    /\ GraphUntouched

\* Neo4jDriver() has returned; get_neo4j_driver assigns _neo4j_driver.
Constructed(c) ==
    /\ inflight[c].pc = "constructed"
    /\ IF inflight[c].op = "get_neo4j_driver"
       THEN /\ adapter' = [adapter EXCEPT !.global = inflight[c].self]
            /\ Goto(c, [pc |-> "return_global", op |-> inflight[c].op])
       ELSE /\ UNCHANGED adapter
            /\ Goto(c, [pc |-> "returned", op |-> inflight[c].op,
                        handle |-> inflight[c].self])
    /\ GraphUntouched

\* get_neo4j_driver: return _neo4j_driver
ReturnGlobal(c) ==
    /\ inflight[c].pc = "return_global"
    /\ Goto(c, [pc |-> "returned", op |-> inflight[c].op, handle |-> adapter.global])
    /\ UNCHANGED adapter
    /\ GraphUntouched

\* close_neo4j_driver(): if _neo4j_driver is not None
CloseNeo4jDriver(c) ==
    /\ inflight[c].pc = "idle"
    /\ IF adapter.global = 0
       THEN Goto(c, [pc |-> "ended", op |-> "close_neo4j_driver"])
       ELSE Goto(c, [pc |-> "close", op |-> "close_neo4j_driver",
                    self |-> adapter.global])
    /\ UNCHANGED adapter
    /\ GraphUntouched

\* close: if self._driver
CloseCheck(c) ==
    /\ inflight[c].pc = "close"
    /\ Goto(c, [inflight[c] EXCEPT
                   !.pc = IF adapter.objects[inflight[c].self] # 0
                          THEN "close_pool" ELSE "clear_global"])
    /\ UNCHANGED adapter
    /\ GraphUntouched

\* close: self._driver.close(); on None the call raises AttributeError.
ClosePool(c) ==
    /\ inflight[c].pc = "close_pool"
    /\ IF adapter.objects[inflight[c].self] = 0
       THEN /\ UNCHANGED adapter
            /\ Goto(c, [pc |-> "raised", op |-> inflight[c].op,
                        raised |-> "AttributeError"])
       ELSE /\ adapter' = [adapter EXCEPT
                              !.pools = @ \ {adapter.objects[inflight[c].self]}]
            /\ Goto(c, [inflight[c] EXCEPT !.pc = "clear_driver"])
    /\ GraphUntouched

\* close: self._driver = None
ClearDriver(c) ==
    /\ inflight[c].pc = "clear_driver"
    /\ adapter' = [adapter EXCEPT !.objects[inflight[c].self] = 0]
    /\ Goto(c, [inflight[c] EXCEPT !.pc = "clear_global"])
    /\ GraphUntouched

\* close_neo4j_driver: _neo4j_driver = None
ClearGlobal(c) ==
    /\ inflight[c].pc = "clear_global"
    /\ adapter' = [adapter EXCEPT !.global = 0]
    /\ Goto(c, [pc |-> "ended", op |-> inflight[c].op])
    /\ GraphUntouched

\* The caller is done with what its call gave it.
EndCall(c) ==
    /\ inflight[c].pc \in {"returned", "raised", "ended"}
    /\ Goto(c, [pc |-> "idle"])
    /\ UNCHANGED adapter
    /\ GraphUntouched

\* The adapter calls that open a session.
SessionCalls ==
    {"execute_query", "execute_write_transaction", "execute_read_transaction",
     "health_check"}

Session(c, pool) == [caller |-> c, pool |-> pool]

\* A variant of get_session without try / finally.
ReleaseSession_OnReturnOnly(sessions, session, outcome) ==
    IF outcome = "rows" THEN sessions \ {session} ELSE sessions

\* get_session: finally: session.close()
ReleaseSession(sessions, session, outcome) == sessions \ {session}

\* What a store call gives its caller: health_check answers a status for
\* every outcome, the other calls return the rows or raise.
CallResult(op, outcome) ==
    IF op = "health_check"
    THEN IF outcome = "rows" THEN "healthy" ELSE "unhealthy"
    ELSE outcome

\* get_session: session = self.driver.session(database=db_name); the
\* driver property raises RuntimeError when _driver is None.
OpenSession(c, op) ==
    /\ inflight[c].pc = "returned"
    /\ "handle" \in DOMAIN inflight[c]
    /\ inflight[c].handle # 0
    /\ LET pool == adapter.objects[inflight[c].handle]
       IN  IF pool = 0
           THEN /\ UNCHANGED adapter
                /\ Goto(c, [pc |-> "returned", op |-> op,
                            handle |-> inflight[c].handle,
                            result |-> CallResult(op, "RuntimeError")])
           ELSE /\ adapter' = [adapter EXCEPT !.sessions = @ \cup {Session(c, pool)}]
                /\ Goto(c, [pc |-> "in_session", op |-> op,
                            handle |-> inflight[c].handle,
                            session |-> Session(c, pool)])
    /\ GraphUntouched

\* The body of the with block: the statement returns rows or raises; in
\* health_check the row may also hold an unexpected value.
RunInSession(c, outcome) ==
    /\ inflight[c].pc = "in_session"
    /\ outcome = "unexpected" => inflight[c].op = "health_check"
    /\ Goto(c, [inflight[c] EXCEPT !.pc = "finally"] @@ [outcome |-> outcome])
    /\ UNCHANGED adapter
    /\ GraphUntouched

\* The with block is left: the session is released and the call ends.
LeaveSession(c) ==
    /\ inflight[c].pc = "finally"
    /\ adapter' = [adapter EXCEPT
                      !.sessions = ReleaseSession(@, inflight[c].session,
                                                  inflight[c].outcome)]
    /\ Goto(c, [pc |-> "returned", op |-> inflight[c].op,
                handle |-> inflight[c].handle,
                result |-> CallResult(inflight[c].op, inflight[c].outcome)])
    /\ GraphUntouched

NextAdapter ==
    \/ \E c \in Callers : GetNeo4jDriver(c)
    \/ \E c \in Callers : Neo4jDriverCall(c)
    \/ \E c \in Callers : NewCheck(c)
    \/ \E c \in Callers : NewCreate(c)
    \/ \E c \in Callers : NewReturn(c)
    \/ \E c \in Callers : InitCheck(c)
    \/ \E c \in Callers : \E connects \in BOOLEAN : InitializeDriver(c, connects)
    \/ \E c \in Callers : Constructed(c)
    \/ \E c \in Callers : ReturnGlobal(c)
    \/ \E c \in Callers : CloseNeo4jDriver(c)
    \/ \E c \in Callers : CloseCheck(c)
    \/ \E c \in Callers : ClosePool(c)
    \/ \E c \in Callers : ClearDriver(c)
    \/ \E c \in Callers : ClearGlobal(c)
    \/ \E c \in Callers : EndCall(c)
    \/ \E c \in Callers : \E op \in SessionCalls : OpenSession(c, op)
    \/ \E c \in Callers :
           \E outcome \in {"rows", "raises", "unexpected"} : RunInSession(c, outcome)
    \/ \E c \in Callers : LeaveSession(c)

SpecAdapter == Init /\ [][NextAdapter]_vars

(***************************************************************************)
(* Properties of the coverage engine.                                      *)
(***************************************************************************)
\* A TestCase reachable from hazard hid through Hazard -MITIGATED_BY->
\* SafetyGoal -REFINED_TO-> FSR -REFINED_TO-> TSR -VERIFIED_BY-> TestCase.
HasEdge(s, t, d) == BagIn(Edge(s, t, d), edges)
IsNode(label, id) == \E n \in nodes : n.label = label /\ n.id = id

TestCaseReachable(hid) ==
    \E sg \in nodes, fsr \in nodes, tsr \in nodes, tc \in nodes :
        /\ sg.label = "SafetyGoal" /\ HasEdge(hid, "MITIGATED_BY", sg.id)
        /\ fsr.label = "FunctionalSafetyRequirement"
        /\ HasEdge(sg.id, "REFINED_TO", fsr.id)
        /\ tsr.label = "TechnicalSafetyRequirement"
        /\ HasEdge(fsr.id, "REFINED_TO", tsr.id)
        /\ tc.label = "TestCase" /\ HasEdge(tsr.id, "VERIFIED_BY", tc.id)

SafetyGoalLinked(hid) ==
    \E sg \in nodes : sg.label = "SafetyGoal" /\ HasEdge(hid, "MITIGATED_BY", sg.id)

\* C1: for every hazard in the graph, get_hazard_coverage answers, and its
\* coverage_status is 'full' exactly when a TestCase is reachable from the
\* hazard through the four-hop coverage chain.
C1_FullIffTestCaseReachable ==
    (/\ req.op = "get_hazard_coverage"
     /\ req.faults = {}
     /\ IsNode("Hazard", req.id))
    => /\ resp.code = 200
       /\ (resp.coverage.coverage_status = "full") <=> TestCaseReachable(req.id)

C1_Witness ==
    /\ req.op = "get_hazard_coverage"
    /\ req.faults = {}
    /\ resp.code = 200
    /\ resp.coverage.coverage_status = "full"
    /\ TestCaseReachable(req.id)
    /\ \E h \in nodes : h.label = "Hazard" /\ h.id # req.id /\ ~TestCaseReachable(h.id)

\* C2: a hazard from which no TestCase is reachable has coverage_status
\* 'partial' when a SafetyGoal is linked to it by MITIGATED_BY and 'none'
\* when none is.
C2_PartialWhenGoalLinked ==
    (/\ req.op = "get_hazard_coverage"
     /\ resp.code = 200
     /\ ~TestCaseReachable(req.id))
    => resp.coverage.coverage_status =
           IF SafetyGoalLinked(req.id) THEN "partial" ELSE "none"

(***************************************************************************)
(* Properties of the impact engine.                                        *)
(***************************************************************************)
\* The nodes the impact traversals reach from component cid.
ReachableHazards(cid) ==
    {h.id : h \in {n \in NodesWith(nodes, "Hazard") :
        \E f \in NodesWith(nodes, "Function"), sg \in NodesWith(nodes, "SafetyGoal") :
            /\ HasEdge(cid, "IMPLEMENTS", f.id)
            /\ HasEdge(f.id, "CONTRIBUTES_TO", sg.id)
            /\ HasEdge(n.id, "MITIGATED_BY", sg.id)}}

ReachableSafetyGoals(cid) ==
    {sg.id : sg \in {n \in NodesWith(nodes, "SafetyGoal") :
        \E f \in NodesWith(nodes, "Function"), h \in NodesWith(nodes, "Hazard") :
            /\ HasEdge(cid, "IMPLEMENTS", f.id)
            /\ HasEdge(f.id, "CONTRIBUTES_TO", n.id)
            /\ HasEdge(h.id, "MITIGATED_BY", n.id)}}

ReachableFailureModes(cid) ==
    {fm.id : fm \in {n \in NodesWith(nodes, "FailureMode") :
        HasEdge(cid, "HAS_FAILURE_MODE", n.id)}}

\* C4: the single-component impact_score is 10 x |hazards| + 5 x
\* |safety_goals| + 3 x |failure_modes| over the distinct sets of nodes
\* reachable from the component.
C4_ImpactScoreFormula ==
    (req.op = "get_component_impact" /\ resp.code = 200)
    => resp.impact.impact_score =
           10 * Cardinality(ReachableHazards(req.id))
           + 5 * Cardinality(ReachableSafetyGoals(req.id))
           + 3 * Cardinality(ReachableFailureModes(req.id))

\* C5: with Component C-001, FailureMode FM-001 and HAS_FAILURE_MODE
\* [C-001, FM-001] and nothing else in the graph, the impact analysis of
\* C-001 reports impact_score = 3.
C5_OneFailureModeScoresThree ==
    (/\ req.op = "get_component_impact"
     /\ req.id = C001
     /\ resp.code = 200
     /\ nodes = {Node("Component", C001, Null), Node("FailureMode", FM001, Null)}
     /\ edges = SetToBag({Edge(C001, "HAS_FAILURE_MODE", FM001)}))
    => resp.impact.impact_score = 3

(***************************************************************************)
(* Imports.                                                                *)
(***************************************************************************)
Ids(ns) == {n.id : n \in ns}
Pairs == req.request.relationships
MissingPairs == {i \in 1..Len(Pairs) : ~({Pairs[i].src, Pairs[i].dst} \subseteq Ids(nodes))}
CallsWith(q, outs) == {i \in 1..Len(calls) : calls[i].q = q /\ calls[i].out \in outs}

\* C3: when exactly one of the N relationship pairs of an import names a
\* node id that is not in the graph, the import answers success, reports
\* relationships_created = N - 1 and the N - 1 other relationships exist.
C3_MissingEndpointNotCounted ==
    (/\ req.op = "import_hara" /\ resp.code = 201 /\ req.faults = {}
     /\ Cardinality(MissingPairs) = 1)
    => /\ resp.status = "success"
       /\ resp.data.relationships_created = Len(Pairs) - 1
       /\ \A i \in (1..Len(Pairs)) \ MissingPairs :
              HasEdge(Pairs[i].src, Pairs[i].type, Pairs[i].dst)

\* C6: an FMEA import that names a Component id already in the graph
\* succeeds, reports components_created = 0 and leaves the node as it was.
C6_ExistingComponentSkipped ==
    (/\ req.op = "import_fmea" /\ resp.code # 422
     /\ \E i \in 1..Len(req.request.components) :
            IsNode("Component", req.request.components[i].id))
    => /\ resp.code = 201
       /\ resp.status = "success"
       /\ resp.data.components_created = 0

\* The schema rules an entity of a request body can break, stated on the
\* payloads: id pattern, enumeration membership, numeric range.
BreaksHazardSchema(h) ==
    \/ h.id \notin {H001, H002}
    \/ h.asil \notin {"QM", "A", "B", "C", "D"}
    \/ (Has(h, "severity") /\ h.severity > 3)

BreaksSchema(r) ==
    IF Has(r, "hazards")
    THEN \/ \E i \in 1..Len(r.hazards) : BreaksHazardSchema(r.hazards[i])
         \/ \E i \in 1..Len(r.safety_goals) : r.safety_goals[i].asil = "QM"
    ELSE \/ \E i \in 1..Len(r.fmea_entries) : r.fmea_entries[i].rpn > 1000
         \/ \E i \in 1..Len(r.failure_modes) : ~Has(r.failure_modes[i], "name")

C8_ItemFailureDoesNotStopImport ==
    (req.op = "import_hara" /\ resp.code # 422)
    => /\ resp.code = 201 /\ resp.status = "success"
       /\ Len(calls) = NumCalls(req.request)
       /\ \A i \in 1..Len(req.request.hazards) :
              calls[i].q = "CREATE_HAZARD" /\ calls[i].arg = req.request.hazards[i].id
       /\ resp.data.hazards_created =
              Cardinality(CallsWith("CREATE_HAZARD", {"ok"}))
       /\ resp.data.scenarios_created =
              Cardinality(CallsWith("CREATE_SCENARIO", {"ok"}))
       /\ resp.data.safety_goals_created =
              Cardinality(CallsWith("CREATE_SAFETY_GOAL", {"ok"}))
       /\ resp.data.relationships_created =
              Cardinality(CallsWith("CREATE_RELATIONSHIP", {"ok", "no_match"}))

\* The first hazard's creation threw, the second hazard was created and
\* counted.
C8_Witness ==
    /\ req.op = "import_hara"
    /\ resp.code = 201
    /\ Len(calls) >= 2
    /\ calls[1].q = "CREATE_HAZARD" /\ calls[1].out = "threw"
    /\ calls[2].q = "CREATE_HAZARD" /\ calls[2].out = "ok"
    /\ resp.data.hazards_created = 1
    /\ IsNode("Hazard", H001)

\* C9: a store call that fails during an import or an analysis is answered
\* as an internal error: the import does not answer success, and the
\* analysis of an id that exists does not answer not-found.
C9_StoreFailureIsInternalError ==
    /\ (req.op = "import_hara" /\ resp.code # 422 /\ req.faults # {})
       => resp.code = 500
    /\ (req.op = "get_hazard_coverage" /\ req.faults # {} /\ IsNode("Hazard", req.id))
       => resp.code = 500

\* The ids a request's node payloads carry.
RequestIds(r) ==
    {r.hazards[i].id : i \in 1..Len(r.hazards)}
    \cup {r.scenarios[i].id : i \in 1..Len(r.scenarios)}
    \cup {r.safety_goals[i].id : i \in 1..Len(r.safety_goals)}

EdgesJoinNodes ==
    \A e \in BagToSet(edges) : {e.src, e.dst} \subseteq Ids(nodes)

\* C10: every relationship in the graph joins two nodes of the graph, and a
\* relationship pair with an endpoint that is neither in the graph nor in
\* the request adds no relationship and no node.
C10_RelationshipsJoinExistingNodes ==
    [][/\ EdgesJoinNodes'
       /\ (req'.op = "import_hara" /\ resp'.code = 201)
          => \A i \in 1..Len(req'.request.relationships) :
               LET pr == req'.request.relationships[i]
                   absent == {pr.src, pr.dst} \ (Ids(nodes) \cup RequestIds(req'.request))
               IN  absent # {}
                   => /\ absent \cap Ids(nodes') = {}
                      /\ ~BagIn(Edge(pr.src, pr.type, pr.dst), edges')]_vars

\* One pair of an import matched no node, another one became a relationship.
C10_Witness ==
    /\ req.op = "import_hara"
    /\ resp.code = 201
    /\ CallsWith("CREATE_RELATIONSHIP", {"no_match"}) # {}
    /\ CallsWith("CREATE_RELATIONSHIP", {"ok"}) # {}
    /\ edges # EmptyBag
    /\ EdgesJoinNodes

(***************************************************************************)
(* Re-import.                                                              *)
(***************************************************************************)
\* The last payload of the request's hazards that carries the id.
LastPayload(hs, id) ==
    hs[CHOOSE i \in 1..Len(hs) :
          /\ hs[i].id = id
          /\ \A j \in (i + 1)..Len(hs) : hs[j].id # id]

\* C11: an import of an entity whose id is already in the graph updates
\* the node's properties to the imported ones, and the graph holds at most
\* one node per kind and id.
C11_ReimportMerges ==
    (req.op = "import_hara" /\ resp.code = 201 /\ req.faults = {})
    => /\ \A n, m \in nodes : (n.label = m.label /\ n.id = m.id) => n = m
       /\ \A n \in NodesWith(nodes, "Hazard") :
              (\E i \in 1..Len(req.request.hazards) : req.request.hazards[i].id = n.id)
              => n.asil = LastPayload(req.request.hazards, n.id).asil

(***************************************************************************)
(* Imports served at the same time.                                        *)
(***************************************************************************)
\* The store calls that wrote a hazard with the id, in store order.
HazardWrites(id) ==
    {i \in 1..Len(calls) : calls[i].kind = "hazards" /\ calls[i].item.id = id}

\* C12: when two imports that carry the same hazard id with different
\* property values run at the same time, the node ends with the values of
\* the later of the two writes, and both imports succeed.
C12_LastWriteWins ==
    (/\ \A c \in Callers : inflight[c].pc = "done" /\ inflight[c].code = 201
     /\ \E i, j \in HazardWrites(H001) :
            /\ i < j
            /\ calls[i].caller # calls[j].caller
            /\ calls[i].item.asil # calls[j].item.asil)
    => /\ \A n \in NodesWith(nodes, "Hazard") :
              n.id = H001 =>
                  \E j \in HazardWrites(H001) :
                      /\ \A i \in HazardWrites(H001) : i <= j
                      /\ n.asil = calls[j].item.asil
       /\ \A c \in Callers : inflight[c].status = "success"

(***************************************************************************)
(* Defect status.                                                          *)
(***************************************************************************)
Defects(ns) == NodesWith(ns, "DefectInstance")

\* The moves the defect life cycle has.
LifeCycleMove(from, to) ==
    \/ <<from, to>> \in {<<"open", "in_progress">>, <<"in_progress", "resolved">>,
                         <<"resolved", "closed">>}
    \/ /\ to \in {"wont_fix", "duplicate"}
       /\ from \notin {"wont_fix", "duplicate"}

\* C13: a status update only moves a defect along open -> in_progress ->
\* resolved -> closed or into wont_fix / duplicate, and a defect that is
\* wont_fix or duplicate never changes status again.
C13_StatusFollowsLifeCycle ==
    [][\A d \in Defects(nodes) : \A e \in Defects(nodes') :
           (d.id = e.id /\ d.status # e.status)
           => LifeCycleMove(d.status, e.status)]_vars

\* C14: resolved_date is written only by an update that moves the defect
\* into resolved; every other update leaves it as it was, and an update
\* for an id that is not in the graph fails with not-found and changes
\* nothing.
C14_ResolvedDateOnlyOnResolve ==
    [][/\ \A d \in Defects(nodes) : \A e \in Defects(nodes') :
              (d.id = e.id /\ d.resolved_date # e.resolved_date)
              => (e.status = "resolved" /\ d.status # "resolved")
       /\ (req'.op = "update_defect_status" /\ req'.id \notin Ids(nodes))
          => (resp'.raised = "ValueError" /\ nodes' = nodes)]_vars

(***************************************************************************)
(* Coverage of all hazards.                                                *)
(***************************************************************************)
\* The hazards an allow-list admits: every hazard when none is given.
AdmittedHazardIds(af) ==
    {h.id : h \in {n \in nodes : n.label = "Hazard"
                       /\ (af.given /\ af.levels # {} => n.asil \in af.levels)}}

\* C15: the all-hazards coverage holds exactly one entry for each hazard
\* whose asil is in the allow-list (for every hazard without an
\* allow-list) and no other entry, whatever fans out from a hazard, and
\* total_hazards is that number of hazards.
C15_OneEntryPerHazard ==
    (req.op = "get_all_hazards_coverage" /\ req.faults = {})
    => LET items == resp.data.hazards
       IN  /\ resp.code = 200
           /\ {items[i].hazard_id : i \in 1..Len(items)} = AdmittedHazardIds(req.asil_filter)
           /\ \A i, j \in 1..Len(items) :
                  items[i].hazard_id = items[j].hazard_id => i = j
           /\ resp.data.summary.total_hazards = Cardinality(AdmittedHazardIds(req.asil_filter))

\* A hazard with two paths to a test case, over parallel relationships,
\* has one entry, next to a hazard the allow-list keeps out.
C15_Witness ==
    /\ req.op = "get_all_hazards_coverage"
    /\ req.asil_filter = Filter({"D"})
    /\ resp.code = 200
    /\ Len(resp.data.hazards) = 1
    /\ resp.data.hazards[1].coverage_status = "full"
    /\ Copies(edges, H001, "MITIGATED_BY", SG001) = 2
    /\ IsNode("Hazard", H002)

FullyCoveredHazards(af) == {id \in AdmittedHazardIds(af) : TestCaseReachable(id)}

\* C16: coverage_percentage is fully_covered / total_hazards x 100 when
\* there are hazards and exactly 0, without a division error, when the
\* hazard set is empty, in the all-hazards summary and in the statistics.
C16_CoveragePercentage ==
    /\ (req.op = "get_all_hazards_coverage" /\ req.faults = {})
       => LET sm == resp.data.summary
              total == Cardinality(AdmittedHazardIds(req.asil_filter))
          IN  /\ resp.code = 200
              /\ total > 0 => sm.coverage_percentage.num * total =
                     Cardinality(FullyCoveredHazards(req.asil_filter)) * 100
                         * sm.coverage_percentage.den
              /\ total = 0 => sm.coverage_percentage.num = 0
    /\ (req.op = "get_coverage_statistics" /\ req.faults = {})
       => LET st == resp.statistics
              total == Cardinality(AdmittedHazardIds(NoFilter))
          IN  /\ resp.code = 200
              /\ total > 0 => st.coverage_percentage.num * total =
                     Cardinality(FullyCoveredHazards(NoFilter)) * 100
                         * st.coverage_percentage.den
              /\ total = 0 => st.coverage_percentage.num = 0

\* One of two hazards is fully covered: 50 percent.
C16_Witness ==
    /\ req.op = "get_all_hazards_coverage"
    /\ resp.code = 200
    /\ resp.data.summary.total_hazards = 2
    /\ resp.data.summary.fully_covered = 1
    /\ resp.data.summary.coverage_percentage = [num |-> 100, den |-> 2]

\* The components a ranking request asks for: all of them, or those of the
\* requested type.
AskedComponents ==
    {c \in nodes : /\ c.label = "Component"
                   /\ (Has(req.query, "component_type") /\ req.query.component_type # ""
                          => c.component_type = req.query.component_type)}

AskedLimit == IF Has(req.query, "limit") THEN req.query.limit ELSE 100

\* C17: the ranking of all components answers at most limit components
\* (100 when no limit is sent; a limit above 1000 is rejected), only
\* components of the requested type when a type is requested, in
\* non-increasing impact_score order, and no component left out that passes
\* the filter scores higher than a component returned.
C17_RankingIsTopK ==
    req.op = "get_all_components_impact" =>
        /\ AskedLimit > 1000 => resp.code = 422
        /\ resp.code = 200 =>
              LET cs == resp.data.components
                  returned == {cs[i].component_id : i \in DOMAIN cs}
              IN  /\ Len(cs) <= AskedLimit
                  /\ returned \subseteq {c.id : c \in AskedComponents}
                  /\ Cardinality(returned) = Len(cs)
                  /\ \A i, j \in DOMAIN cs :
                        i < j => cs[i].impact_score >= cs[j].impact_score
                  /\ \A c \in AskedComponents :
                        c.id \notin returned =>
                            \A i \in DOMAIN cs :
                                AllComponentsImpactItem(nodes, edges, c).impact_score
                                    <= cs[i].impact_score

C17_Witness ==
    /\ req.op = "get_all_components_impact"
    /\ Has(req.query, "component_type") /\ req.query.component_type = "hardware"
    /\ Has(req.query, "limit") /\ req.query.limit = 1
    /\ resp.code = 200
    /\ Len(resp.data.components) = 1
    /\ resp.data.components[1].component_id = C003
    /\ resp.data.components[1].impact_score = 15
    /\ AllComponentsImpactItem(nodes, edges, ComponentNode(C001, "hardware")).impact_score = 3
    /\ ComponentNode(C001, "hardware") \in nodes
    /\ ComponentNode(C002, "software") \in nodes

\* The complete paths of a hazard: the (SafetyGoal, FSR, TSR, TestCase)
\* combinations joined by the four relationships.
CompletePaths(hid) ==
    {p \in {n.id : n \in nodes} \X {n.id : n \in nodes}
           \X {n.id : n \in nodes} \X {n.id : n \in nodes} :
        /\ IsNode("SafetyGoal", p[1]) /\ HasEdge(hid, "MITIGATED_BY", p[1])
        /\ IsNode("FunctionalSafetyRequirement", p[2])
        /\ HasEdge(p[1], "REFINED_TO", p[2])
        /\ IsNode("TechnicalSafetyRequirement", p[3])
        /\ HasEdge(p[2], "REFINED_TO", p[3])
        /\ IsNode("TestCase", p[4]) /\ HasEdge(p[3], "VERIFIED_BY", p[4])}

\* C18: for a hazard with k complete paths Hazard -> SafetyGoal -> FSR ->
\* TSR -> TestCase, get_traceability_chain answers exactly k records, one
\* per (SafetyGoal, FSR, TSR, TestCase) path.
C18_OneRecordPerPath ==
    (/\ req.op = "get_traceability_chain"
     /\ req.faults = {}
     /\ IsNode("Hazard", req.id))
    => /\ resp.code = 200
       /\ Len(resp.chains) = Cardinality(CompletePaths(req.id))
       /\ {<<resp.chains[i].safety_goal, resp.chains[i].fsr, resp.chains[i].tsr,
             resp.chains[i].test_case>> : i \in DOMAIN resp.chains}
              = CompletePaths(req.id)

\* ASIL severity: QM is the lowest, D the highest.
Severity(asil) == CHOOSE i \in 0..4 : <<"QM", "A", "B", "C", "D">>[i + 1] = asil

\* C19: filtering hazards by the ASIL list ["D", "C"] answers exactly the
\* hazards whose asil is D or C, ordered by descending ASIL severity and
\* then by id.
C19_FilterByDC ==
    (/\ req.op = "filter_hazards_by_asil"
     /\ req.asil = <<"D", "C">>
     /\ req.faults = {})
    => /\ resp.code = 200
       /\ resp.count = Len(resp.results)
       /\ Cardinality({resp.results[i] : i \in DOMAIN resp.results}) = Len(resp.results)
       /\ {resp.results[i] : i \in DOMAIN resp.results}
              = {h \in nodes : h.label = "Hazard" /\ h.asil \in {"D", "C"}}
       /\ \A i, j \in DOMAIN resp.results :
             i < j =>
                 LET a == resp.results[i]
                     b == resp.results[j]
                 IN  \/ Severity(a.asil) > Severity(b.asil)
                     \/ /\ a.asil = b.asil
                        /\ IndexIn(NumberTextOrder, a.id[3])
                               < IndexIn(NumberTextOrder, b.id[3])

C19_Witness ==
    /\ req.op = "filter_hazards_by_asil"
    /\ req.asil = <<"D", "C">>
    /\ resp.code = 200
    /\ resp.count = 3
    /\ resp.results[1].id = H002 /\ resp.results[2].id = H003
    /\ resp.results[3].id = H001
    /\ IsNode("Hazard", H009)

\* The entities of a kind an import request carries.
Carried(r, key) == IF Has(r, key) THEN {r[key][i] : i \in DOMAIN r[key]} ELSE {}

CarriesQM(r, keys) == \E k \in keys : \E e \in Carried(r, k) : e.asil = "QM"

\* C20: in every state the imports reach, no SafetyGoal node and no
\* FunctionalSafetyRequirement node has asil QM; a request that carries
\* such an entity is rejected before any write, and a request whose hazard
\* has asil QM is accepted.
C20_NoQMSafetyGoalOrFSR ==
    /\ \A n \in nodes :
          n.label \in {"SafetyGoal", "FunctionalSafetyRequirement"} => n.asil # "QM"
    /\ (req.op = "import_hara" /\ CarriesQM(req.request, {"safety_goals"}))
          => resp.code = 422 /\ calls = <<>>
    /\ (/\ req.op = "import_requirements"
        /\ CarriesQM(req.request, {"functional_safety_requirements", "fsrs"}))
          => resp.status = "error" /\ calls = <<>>
    /\ (/\ req.op = "import_hara"
        /\ CarriesQM(req.request, {"hazards"})
        /\ All(req.request.hazards, ValidHazard)
        /\ ~CarriesQM(req.request, {"safety_goals"}))
          => resp.code = 201

C20_Witness ==
    /\ req.op = "import_hara"
    /\ CarriesQM(req.request, {"safety_goals"})
    /\ resp.code = 422
    /\ Node("Hazard", H001, "QM") \in nodes
    /\ \E n \in nodes : n.label = "SafetyGoal"

\* The callers with a store call in progress.
InStoreCall(c) == inflight[c].pc \in {"in_session", "finally"}

\* C21: every session a store call opens is closed when the call ends,
\* whether it returned rows or raised; when no call is in progress no
\* session is open.
C21_SessionsClosedWithTheCall ==
    /\ \A s \in adapter.sessions : InStoreCall(s.caller)
    /\ (\A c \in Callers : ~InStoreCall(c)) => adapter.sessions = {}

C21_Witness ==
    /\ \E c \in Callers :
          /\ inflight[c].pc = "returned"
          /\ "result" \in DOMAIN inflight[c]
          /\ inflight[c].op = "execute_write_transaction"
          /\ inflight[c].result = "raises"
    /\ \E c \in Callers : inflight[c].pc = "in_session"
    /\ Cardinality(adapter.sessions) = 1

\* The handles the callers hold.
HeldHandles ==
    {inflight[c].handle : c \in {d \in Callers : "handle" \in DOMAIN inflight[d]}}

Closing == \E c \in Callers : inflight[c].pc # "idle" /\ inflight[c].op = "close_neo4j_driver"

\* Caller c's get_neo4j_driver() returns in this step.
GetReturns(c) == inflight[c].pc = "return_global" /\ inflight'[c].pc = "returned"

\* C24: in every interleaving of get_neo4j_driver(), Neo4jDriver() and
\* close_neo4j_driver() calls at most one connection pool is open, every
\* caller obtains the same handle, and a get that runs while no close is
\* running returns a handle whose pool is open.
C24_OnePoolOneHandle ==
    [][/\ Cardinality(adapter'.pools) <= 1
       /\ Cardinality(HeldHandles') <= 1
       /\ \A c \in Callers :
             (GetReturns(c) /\ ~Closing /\ ~Closing')
                 => /\ inflight'[c].handle # 0
                    /\ adapter'.objects[inflight'[c].handle] \in adapter'.pools]_vars

\* The store calls of the log that tried a relationship and matched no
\* pair of endpoints.
SkippedCalls == {i \in 1..Len(calls) : calls[i].kind = "relationships" /\ calls[i].rows = 0}

NodeIds == {n.id : n \in nodes}

\* C22: the engine never defers or retries a relationship: a relationship
\* is created only by the store call of a request that names it, at a
\* moment when both endpoints are in the graph; a pair whose endpoint is
\* missing at that moment creates nothing, and the later import of the
\* endpoint does not create it either.
C22_NoDeferredRelationship ==
    [][/\ \A e \in BagToSet(edges') :
             CopiesIn(e, edges') > CopiesIn(e, edges)
                 => /\ Len(calls') = Len(calls) + 1
                    /\ calls'[Len(calls')].kind = "relationships"
                    /\ calls'[Len(calls')].item = Pair(e.type, e.src, e.dst)
                    /\ {e.src, e.dst} \subseteq NodeIds
       /\ (/\ Len(calls') = Len(calls) + 1
           /\ calls'[Len(calls')].kind = "relationships"
           /\ ~({calls'[Len(calls')].item.src, calls'[Len(calls')].item.dst}
                    \subseteq NodeIds))
              => edges' = edges]_vars

C22_Witness ==
    /\ \A c \in Callers : inflight[c].pc = "done"
    /\ \E i \in SkippedCalls :
          /\ \E j \in (i + 1)..Len(calls) :
                /\ calls[j].kind = "hazards"
                /\ calls[j].out = "ok"
                /\ calls[j].item.id = calls[i].item.src
          /\ {calls[i].item.src, calls[i].item.dst} \subseteq NodeIds
          /\ Copies(edges, calls[i].item.src, calls[i].item.type, calls[i].item.dst) = 0

\* In this round caller a sent only the relationship pair and caller b only
\* the hazard that is the pair's endpoint; i is a's relationship call and
\* j the call of b that created the hazard.
RacePairs ==
    {ij \in (1..Len(calls)) \X (1..Len(calls)) :
        /\ calls[ij[1]].kind = "relationships"
        /\ calls[ij[2]].kind = "hazards"
        /\ calls[ij[2]].out = "ok"
        /\ calls[ij[2]].item.id = calls[ij[1]].item.src
        /\ calls[ij[1]].caller # calls[ij[2]].caller
        /\ inflight[calls[ij[1]].caller].request.hazards = <<>>
        /\ inflight[calls[ij[2]].caller].request.relationships = <<>>}

\* C23: when one import creates relationship (s, t) while another creates
\* an endpoint of it, the relationship exists exactly in the interleavings
\* that wrote the endpoint first; a skipped pair is not counted, both
\* imports answer success, and no relationship joins a missing node.
C23_RaceSkipsOrCreates ==
    (\A c \in Callers : inflight[c].pc = "done" /\ inflight[c].code = 201)
    => /\ EdgesJoinNodes
       /\ \A ij \in RacePairs :
             LET rel == calls[ij[1]]
                 written_first == ij[2] < ij[1]
             IN  /\ (Copies(edges, rel.item.src, rel.item.type, rel.item.dst) > 0)
                        <=> written_first
                 /\ inflight[rel.caller].data.relationships_created
                        = IF written_first THEN 1 ELSE 0
                 /\ \A c \in Callers : inflight[c].status = "success"

\* The ids of the entities an import request carries.
RequestEntityIds(r) ==
    {r.hazards[i].id : i \in DOMAIN r.hazards}
        \cup {r.scenarios[i].id : i \in DOMAIN r.scenarios}
        \cup {r.safety_goals[i].id : i \in DOMAIN r.safety_goals}

\* C25: within one import every node creation is attempted before any
\* relationship creation, so a relationship whose two endpoints are entities
\* of the same request is created and counted: when every pair of the
\* request is of that kind, relationships_created is the number of pairs
\* and every pair's relationship exists.
C25_NodesBeforeRelationships ==
    (/\ req.op = "import_hara"
     /\ req.faults = {}
     /\ resp.code = 201
     /\ req.request.relationships # <<>>
     /\ \A i \in DOMAIN req.request.relationships :
            {req.request.relationships[i].src, req.request.relationships[i].dst}
                \subseteq RequestEntityIds(req.request))
    => /\ resp.data.relationships_created = Len(req.request.relationships)
       /\ \A i \in DOMAIN req.request.relationships :
             HasEdge(req.request.relationships[i].src,
                     req.request.relationships[i].type,
                     req.request.relationships[i].dst)

\* C26: on a clean graph import_hara creates and counts every hazard of a
\* schema-valid request, whether or not severity, exposure and
\* controllability are given: hazards_created is the number of hazards of
\* the request and each of them is a node of the graph.
C26_OptionalFieldsNotNeeded ==
    [][(/\ nodes = {}
        /\ req'.op = "import_hara"
        /\ req'.faults = {}
        /\ resp'.code = 201
        /\ \A i, j \in DOMAIN req'.request.hazards :
               i # j => req'.request.hazards[i].id # req'.request.hazards[j].id)
       => /\ resp'.data.hazards_created = Len(req'.request.hazards)
          /\ \A i \in DOMAIN req'.request.hazards :
                \E n \in nodes' :
                    n.label = "Hazard" /\ n.id = req'.request.hazards[i].id]_vars

\* C27: the impact_score the ranking of all components reports for a
\* component equals the impact_score the single-component impact analysis
\* reports for the same component over the same graph.
C27_RankingScoreIsComponentScore ==
    (req.op = "get_all_components_impact" /\ resp.code = 200) =>
        \A i \in DOMAIN resp.data.components :
            \A impact \in ComponentImpactRows(nodes, edges,
                                             resp.data.components[i].component_id) :
                impact.impact_score = resp.data.components[i].impact_score

\* C28: the aggregate coverage statistics equal the summary of the
\* unfiltered coverage of all hazards over the same graph, the three counts
\* add up to total_hazards, and the status of each hazard in the coverage
\* of all hazards is the status the single-hazard query reports for it.
C28_StatisticsAreTheSummary ==
    (req.op = "get_coverage_statistics" /\ resp.code = 200) =>
        LET items == AllHazardsCoverageRows(nodes, edges, NoFilter)
            st == resp.statistics
        IN  /\ st.total_hazards = Len(items)
            /\ st.fully_covered = CountStatus(items, "full")
            /\ st.partially_covered = CountStatus(items, "partial")
            /\ st.not_covered = CountStatus(items, "none")
            /\ st.fully_covered + st.partially_covered + st.not_covered
                   = st.total_hazards
            /\ \A i \in DOMAIN items :
                  \A coverage \in HazardCoverageRows(nodes, edges,
                                                     items[i].hazard_id) :
                      coverage.coverage_status = items[i].coverage_status

C28_Witness ==
    /\ req.op = "get_coverage_statistics"
    /\ resp.code = 200
    /\ resp.statistics.total_hazards = 2
    /\ resp.statistics.fully_covered = 1
    /\ resp.statistics.not_covered = 1
    /\ TestCaseReachable(H001)
    /\ HasEdge(H002, "MITIGATED_BY", SG002)

\* The relationships of the request in flight were in the graph before it.
ImportedBefore ==
    \A i \in DOMAIN req'.request.relationships :
        Copies(edges, req'.request.relationships[i].src,
               req'.request.relationships[i].type,
               req'.request.relationships[i].dst) >= 1

\* C29: an import of relationship pairs that are in the graph already, both
\* endpoints present, may add parallel relationships, but the
\* coverage_status of every hazard and the impact_score of every component
\* are after the import what they were before it.
C29_ReimportKeepsStatusAndScore ==
    [][(/\ req'.op = "import_hara"
        /\ resp'.code = 201
        /\ req'.request.relationships # <<>>
        /\ ImportedBefore)
       => /\ \A h \in IdsWith(nodes, "Hazard") :
                {r.coverage_status : r \in HazardCoverageRows(nodes', edges', h)}
                    = {r.coverage_status : r \in HazardCoverageRows(nodes, edges, h)}
          /\ \A c \in IdsWith(nodes, "Component") :
                {r.impact_score : r \in ComponentImpactRows(nodes', edges', c)}
                    = {r.impact_score : r \in ComponentImpactRows(nodes, edges, c)}]_vars

C29_Witness ==
    /\ req.op = "import_hara"
    /\ resp.code = 201
    /\ resp.data.relationships_created = 1
    /\ Copies(edges, H001, "MITIGATED_BY", SG001) = 2
    /\ \E r \in ComponentImpactRows(nodes, edges, C001) : r.impact_score = 15

\* C30: when two imports that carry the same new Component id are served at
\* the same time and both have been answered, both have succeeded, the
\* graph holds exactly one Component node of that id and the
\* components_created counts of the two answers add up to 1.
C30_OneComponentOneCount ==
    (\A c \in Callers :
        /\ inflight[c].pc = "done"
        /\ inflight[c].code # 422
        /\ inflight[c].request.components = <<ComponentC001>>)
    => /\ \A c \in Callers : inflight[c].code = 201
       /\ Cardinality({n \in NodesWith(nodes, "Component") : n.id = C001}) = 1
       /\ inflight["a"].data.components_created
             + inflight["b"].data.components_created = 1
====
